---- MODULE Spec2Model ----
(***************************************************************************)
(* Model of the zlm chat-completion pipeline of zarazaex69/mo:             *)
(*   ParseSSEStream (Event Ingestor, producer goroutine + unbuffered       *)
(*   channel), Formatter.Format (Phase Normalizer), ParseToolCall /        *)
(*   StripToolCallBlock (Tool-Call Assembler), zlmStreamResponse and       *)
(*   zlmNonStreamResponse (Response Assemblers).                           *)
(*                                                                         *)
(* Text is a sequence of symbols.  Every symbol stands for one fixed Go    *)
(* string (table below); the regular expressions of formatter.go are run   *)
(* over symbol sequences by a backtracking matcher with Go's leftmost-     *)
(* first preference order.  No regexp of the source can match from or to   *)
(* the inside of a symbol, so on these texts the matcher computes what     *)
(* regexp.ReplaceAllString / FindStringSubmatch compute.                   *)
(*                                                                         *)
(*   "a"     a            "sp"   one space        "nl"   one newline       *)
(*   "OPEN"  <glm_block tool_call_name="f">                                *)
(*   "CLOSE" </glm_block>                                                  *)
(*   "JH"    {"type": "mcp", "data": {"metadata": {                        *)
(*   "JM"    "id": "c1", "name": "g", "arguments": "{}                     *)
(*   "JN"    "id": "", "name": "g", "arguments": "                         *)
(*   "RES"   ", "result": ""                                               *)
(*   "DR"    null, "display_result": ""                                    *)
(*   "JT"    }}}                                                           *)
(*   "JC"    {"type":"mcp","data":{"metadata":{"id":"c1","name":"g",       *)
(*            "arguments":"{}"}}}            (compact, no blanks)          *)
(*   "LB"    {            "QB"   "}                                        *)
(*   "DO"    <details>    "DC"   </details>                                *)
(*   "SO"    <summary>    "SC"   </summary>                                *)
(*   "RO"    <reasoning>  "RC"   </reasoning>                              *)
(*   "TO"    <think>      "TC"   </think>                                  *)
(*   "FO"    <Full>       "FC"   </Full>      "THC"  </thinking>           *)
(*   "GT"    >                                                             *)
(*   "EO"    {}           (only inside ToolCall.Arguments)                 *)
(***************************************************************************)
EXTENDS Integers, Sequences, FiniteSets, TLC

Symbols ==
    {"a", "sp", "nl", "OPEN", "CLOSE", "JH", "JM", "JN", "RES", "DR", "JT",
     "JC", "LB", "QB", "DO", "DC", "SO", "SC", "RO", "RC", "TO", "TC",
     "FO", "FC", "THC", "GT"}

\* the symbols `.` matches: every symbol but the newline
Dot == Symbols \ {"nl"}

\* the symbols \s matches
Space == {"sp", "nl"}

(***************************************************************************)
(* Regular expressions.  A pattern is a sequence of elements               *)
(* [set, q]: q = "one" (x), "star" (x*, greedy), "lazy" (x*?),             *)
(* "opt" (x?, greedy).                                                     *)
(***************************************************************************)
One(S)  == [set |-> S, q |-> "one"]
Star(S) == [set |-> S, q |-> "star"]
Lazy(S) == [set |-> S, q |-> "lazy"]
Opt(S)  == [set |-> S, q |-> "opt"]

\* the first of two match ends that is a match
Prefer(first, second) == IF first # 0 THEN first ELSE second

\* MatchFrom(pat, k, s, i): the position after the match of pat[k..] at
\* s[i..] that a backtracking matcher prefers, or 0 when there is none.
RECURSIVE MatchFrom(_, _, _, _)
MatchFrom(pat, k, s, i) ==
    IF k > Len(pat) THEN i
    ELSE IF i <= Len(s) /\ s[i] \in pat[k].set
    THEN CASE pat[k].q = "one"  -> MatchFrom(pat, k + 1, s, i + 1)
           [] pat[k].q = "star" -> Prefer(MatchFrom(pat, k, s, i + 1),
                                          MatchFrom(pat, k + 1, s, i))
           [] pat[k].q = "lazy" -> Prefer(MatchFrom(pat, k + 1, s, i),
                                          MatchFrom(pat, k, s, i + 1))
           [] pat[k].q = "opt"  -> Prefer(MatchFrom(pat, k + 1, s, i + 1),
                                          MatchFrom(pat, k + 1, s, i))
    ELSE IF pat[k].q = "one" THEN 0
    ELSE MatchFrom(pat, k + 1, s, i)

\* regexp.ReplaceAllString: every non-overlapping match, leftmost first
RECURSIVE ReplaceFrom(_, _, _, _)
ReplaceFrom(pat, repl, s, i) ==
    IF i > Len(s) THEN << >>
    ELSE IF MatchFrom(pat, 1, s, i) # 0
    THEN repl \o ReplaceFrom(pat, repl, s, MatchFrom(pat, 1, s, i))
    ELSE << s[i] >> \o ReplaceFrom(pat, repl, s, i + 1)

ReplaceAllString(pat, s, repl) == ReplaceFrom(pat, repl, s, 1)

\* first position at which pat matches, 0 when none
RECURSIVE FindFrom(_, _, _)
FindFrom(pat, s, i) ==
    IF i > Len(s) THEN 0
    ELSE IF MatchFrom(pat, 1, s, i) # 0 THEN i ELSE FindFrom(pat, s, i + 1)

\* strings.ReplaceAll of one tag by at most one symbol
RECURSIVE ReplaceSym(_, _, _)
ReplaceSym(s, old, new) ==
    IF s = << >> THEN << >>
    ELSE (IF Head(s) = old THEN new ELSE << Head(s) >>)
         \o ReplaceSym(Tail(s), old, new)

\* strings.Contains(content, "glm_block")
ContainsGlmBlock(s) == \E i \in 1..Len(s) : s[i] \in {"OPEN", "CLOSE"}

\* strings.Contains(content, "summary>")
ContainsSummary(s) == \E i \in 1..Len(s) : s[i] \in {"SO", "SC"}

\* the pre-compiled regexes
glmBlockRegex    == << One({"OPEN"}), One(Dot), Lazy(Dot), One({"CLOSE"}) >>
reGlmBlockStart  == << Star({"nl"}), One({"OPEN"}), One({"JH"}) >>
reGlmBlockEnd    == << One({"RES"}), Star(Dot), One({"CLOSE"}) >>
reGlmBlockClose  == << One({"DR"}), Star(Dot), One({"CLOSE"}) >>
reSummary        == << Star({"nl"}), One({"SO"}), Lazy(Dot), One({"SC"}), Star({"nl"}) >>
reDetailsOpen    == << One({"DO"}), Star({"nl"}) >>
reDetailsClose   == << Star({"nl"}), One({"DC"}) >>
reQuotePrefix    == << One({"nl"}), One({"GT"}), Opt(Space) >>
reReasoningOpen  == << One({"RO"}), Star({"nl"}) >>
reReasoningClose == << Star({"nl"}), One({"RC"}) >>


(***************************************************************************)
(* Values of the Go types.                                                 *)
(***************************************************************************)
Nil == [nil |-> TRUE]

\* domain.ZaiResponse after json.Unmarshal; Data is Nil or a ZaiResponseData
ZaiResponseData(phase, delta, edit, done) ==
    [Phase |-> phase, DeltaContent |-> delta, EditContent |-> edit, Done |-> done]

\* the delta maps Formatter.Format returns (a Go map: the keys are its DOMAIN)
Has(m, key) == key \in DOMAIN m

\* getStr(m, key), with the zero value of the key's type
getStr(m, key, zero) == IF Has(m, key) THEN m[key] ELSE zero

(***************************************************************************)
(* Formatter (Phase Normalizer)                                            *)
(***************************************************************************)
ThinkModes == {"reasoning", "think", "strip", "details"}

\* formatThinking: the three strings.ReplaceAll of wrapper tags
StripWrapperTags(content) ==
    ReplaceSym(ReplaceSym(ReplaceSym(content, "THC", << >>), "FO", << >>), "FC", << >>)

\* formatThinking: the summary block of a thinking phase becomes a blank line
SummaryToBlank(phase, content) ==
    IF phase = "thinking"
    THEN ReplaceAllString(reSummary, content, << "nl", "nl" >>)
    ELSE content

\* formatThinking: <details> and </details> become the <reasoning> pair
DetailsToReasoning(content) ==
    ReplaceAllString(reDetailsClose,
        ReplaceAllString(reDetailsOpen, content, << "RO", "nl", "nl" >>),
        << "nl", "nl", "RC" >>)

\* formatThinking: the quote prefixes of a thinking phase are removed
StripQuotePrefix(phase, content) ==
    IF phase = "thinking"
    THEN ReplaceAllString(reQuotePrefix, content, << "nl" >>)
    ELSE content

\* a switch whose think case leaves the <reasoning> pair as it is
ThinkModeRewriteNoRename(thinkMode, phase, content) ==
    ReplaceAllString(reSummary, StripQuotePrefix(phase, content), << >>)

\* formatThinking: the switch on ThinkMode
ThinkModeRewrite(thinkMode, phase, content) ==
    CASE thinkMode = "reasoning" ->
            ReplaceAllString(reSummary, StripQuotePrefix(phase, content), << >>)
      [] thinkMode = "think" ->
            ReplaceSym(
                ReplaceSym(
                    ReplaceAllString(reSummary, StripQuotePrefix(phase, content), << >>),
                    "RO", << "TO" >>),
                "RC", << "TC" >>)
      [] thinkMode = "strip" ->
            ReplaceAllString(reReasoningClose,
                ReplaceAllString(reReasoningOpen,
                    ReplaceAllString(reSummary, content, << >>), << >>), << >>)
      [] OTHER ->
            ReplaceAllString(reReasoningClose, content, << "RC", "nl", "nl" >>)

formatThinking(thinkMode, phase, content) ==
    IF phase # "thinking" /\ ~(phase = "answer" /\ ContainsSummary(content))
    THEN content
    ELSE ThinkModeRewrite(thinkMode, phase,
             DetailsToReasoning(SummaryToBlank(phase, StripWrapperTags(content))))

\* Format: the phase of the event, "other" when it names none
RawPhase(data) == IF data.Data.Phase = "" THEN "other" ELSE data.Data.Phase

\* Format: the text of the event, delta_content before edit_content
RawContent(data) ==
    IF data.Data.DeltaContent = << >> THEN data.Data.EditContent
    ELSE data.Data.DeltaContent

\* a continuation rule that does not look at the phase before
ResumesAfterAnyPhase(prev, phase, content) ==
    phase = "other" /\ ContainsGlmBlock(content)

\* Format: an "other" event continues the tool call of the event before it
Resumes(prev, phase, content) ==
    phase = "other" /\ prev = "tool_call" /\ ContainsGlmBlock(content)

\* Format: the phase the event is handled under
EffectivePhase(prev, phase, content) ==
    IF phase # "tool_call" /\ Resumes(prev, phase, content) THEN "tool_call" ELSE phase

\* Format: the rewrites of the tool_call handling
ToolCallRewrite(prev, phase, content) ==
    IF phase = "tool_call"
    THEN ReplaceAllString(reGlmBlockEnd,
             ReplaceAllString(reGlmBlockStart, content, << "LB" >>), << >>)
    ELSE IF Resumes(prev, phase, content)
    THEN ReplaceAllString(reGlmBlockClose, content, << "QB" >>)
    ELSE content

\* a tool_call map that also carries the text as content
DeltaOfFragmentWithContent(thinkMode, phase, content) ==
    IF phase = "thinking" /\ thinkMode = "reasoning"
    THEN [role |-> "assistant", reasoning_content |-> content]
    ELSE IF phase = "tool_call" THEN [tool_call |-> content, content |-> content]
    ELSE IF content # << >> THEN [role |-> "assistant", content |-> content]
    ELSE Nil

\* a reasoning mode that returns every answer under reasoning_content too
DeltaOfAnswerAsReasoning(thinkMode, phase, content) ==
    IF phase \in {"thinking", "answer"} /\ thinkMode = "reasoning"
    THEN [role |-> "assistant", reasoning_content |-> content]
    ELSE IF phase = "tool_call" THEN [tool_call |-> content]
    ELSE IF content # << >> THEN [role |-> "assistant", content |-> content]
    ELSE Nil

\* Format: the map returned for the effective phase and the rewritten text
DeltaOf(thinkMode, phase, content) ==
    IF phase = "thinking" /\ thinkMode = "reasoning"
    THEN [role |-> "assistant", reasoning_content |-> content]
    ELSE IF phase = "tool_call" THEN [tool_call |-> content]
    ELSE IF content # << >> THEN [role |-> "assistant", content |-> content]
    ELSE Nil

\* a Format that keeps prevPhase when it returns no delta
FormatTextKeepsPhaseOnNil(prev, thinkMode, phase, content) ==
    [prevPhase |-> IF DeltaOf(thinkMode, EffectivePhase(prev, phase, content),
                        formatThinking(thinkMode, EffectivePhase(prev, phase, content),
                                       ToolCallRewrite(prev, phase, content))) = Nil
                   THEN prev ELSE EffectivePhase(prev, phase, content),
     delta |-> DeltaOf(thinkMode, EffectivePhase(prev, phase, content),
                  formatThinking(thinkMode, EffectivePhase(prev, phase, content),
                                 ToolCallRewrite(prev, phase, content)))]

\* Format from the tool_call handling on: [delta, prevPhase]
FormatText(prev, thinkMode, phase, content) ==
    [prevPhase |-> EffectivePhase(prev, phase, content),
     delta |-> DeltaOf(thinkMode, EffectivePhase(prev, phase, content),
                  formatThinking(thinkMode, EffectivePhase(prev, phase, content),
                                 ToolCallRewrite(prev, phase, content)))]

\* Formatter.Format: [delta, prevPhase] for a formatter whose prevPhase is prev
Format(prev, thinkMode, data) ==
    IF data = Nil \/ data.Data = Nil THEN [delta |-> Nil, prevPhase |-> prev]
    ELSE IF RawContent(data) = << >> THEN [delta |-> Nil, prevPhase |-> prev]
    ELSE FormatText(prev, thinkMode, RawPhase(data), RawContent(data))

(***************************************************************************)
(* Tool-call assembler                                                     *)
(***************************************************************************)
\* symbols that may stand raw inside a JSON string (no quote, no newline)
StrSafe == Symbols \ {"nl", "OPEN", "JH", "JM", "JN", "JC", "DR", "RES", "QB"}

\* json.Unmarshal of the block's payload into the mcp wrapper struct:
\* [ok, id, args] with data.metadata.id and data.metadata.arguments.
\* mode: where the scan stands; depth: the braces open.
RECURSIVE JsonScan(_, _, _, _, _, _)
JsonScan(p, i, mode, depth, id, args) ==
    IF i > Len(p)
    THEN [ok |-> mode = "done", id |-> id, args |-> args]
    ELSE LET c    == p[i]
             bad  == [ok |-> FALSE, id |-> "", args |-> << >>]
             meta == depth = 3
         IN CASE mode = "start" ->
                    IF c = "sp" THEN JsonScan(p, i + 1, "start", 0, id, args)
                    ELSE IF c = "JC" THEN JsonScan(p, i + 1, "done", 0, "c1", << "EO" >>)
                    ELSE IF c = "JH" THEN JsonScan(p, i + 1, "open", 3, id, args)
                    ELSE IF c = "LB" THEN JsonScan(p, i + 1, "open", 1, id, args)
                    ELSE bad
              [] mode = "open" ->
                    IF c = "sp" THEN JsonScan(p, i + 1, "open", depth, id, args)
                    ELSE IF c = "JM"
                    THEN JsonScan(p, i + 1, "str", depth,
                                  IF meta THEN "c1" ELSE "",
                                  IF meta THEN << "EO" >> ELSE << >>)
                    ELSE IF c = "JN" THEN JsonScan(p, i + 1, "str", depth, "", << >>)
                    ELSE IF c = "JT" /\ depth = 3 THEN JsonScan(p, i + 1, "done", 0, id, args)
                    ELSE bad
              [] mode = "str" ->
                    IF c \in StrSafe
                    THEN JsonScan(p, i + 1, "str", depth, id,
                                  IF meta THEN Append(args, c) ELSE args)
                    ELSE IF c = "RES" THEN JsonScan(p, i + 1, "value", depth, id, args)
                    ELSE IF c = "QB"
                    THEN JsonScan(p, i + 1, IF depth = 1 THEN "done" ELSE "value",
                                  depth - 1, id, args)
                    ELSE bad
              [] mode = "value" ->
                    IF c = "sp" THEN JsonScan(p, i + 1, "value", depth, id, args)
                    ELSE IF c = "JT" /\ depth = 3 THEN JsonScan(p, i + 1, "done", 0, id, args)
                    ELSE bad
              [] OTHER ->
                    IF c = "sp" THEN JsonScan(p, i + 1, "done", 0, id, args) ELSE bad

Unmarshal(p) == JsonScan(p, 1, "start", 0, "", << >>)

\* utils.GenerateID: the values a fresh identifier may take
UUIDs == {"call_u1", "call_u2"}

\* a ToolCall that keeps an empty metadata id and empty arguments
ToolCallOfNoDefaults(wrapper, uuid) ==
    IF ~wrapper.ok THEN Nil
    ELSE [ID   |-> wrapper.id,
          Type |-> "function",
          Function |-> [Name |-> "f", Arguments |-> wrapper.args]]

\* ParseToolCall: the ToolCall built from the decoded wrapper
ToolCallOf(wrapper, uuid) ==
    IF ~wrapper.ok THEN Nil
    ELSE [ID   |-> IF wrapper.id = "" THEN uuid ELSE wrapper.id,
          Type |-> "function",
          Function |-> [Name      |-> "f",
                        Arguments |-> IF wrapper.args = << >>
                                      THEN << "EO" >> ELSE wrapper.args]]

\* ParseToolCall: matches[2] of the match that starts at i
Submatch(content, i) ==
    SubSeq(content, i + 1, MatchFrom(glmBlockRegex, 1, content, i) - 2)

\* ParseToolCall(content); uuid is the identifier GenerateID would return
ParseToolCall(content, uuid) ==
    IF FindFrom(glmBlockRegex, content, 1) = 0 THEN Nil
    ELSE ToolCallOf(Unmarshal(Submatch(content, FindFrom(glmBlockRegex, content, 1))), uuid)

StripToolCallBlock(content) ==
    IF ~ContainsGlmBlock(content) THEN content
    ELSE ReplaceAllString(glmBlockRegex, content, << >>)

(***************************************************************************)
(* Tokenizer: Count(text) = len(strings.Fields(text))                      *)
(***************************************************************************)
\* the blank-separated fields of one symbol's string
FieldCount(c) ==
    CASE c = "OPEN" -> 2
      [] c = "JH" -> 5
      [] c \in {"JM", "JN"} -> 6
      [] c \in {"RES", "DR"} -> 3
      [] OTHER -> 1

RECURSIVE CountFrom(_, _, _)
CountFrom(s, i, inField) ==
    IF i > Len(s) THEN 0
    ELSE IF s[i] \in Space THEN CountFrom(s, i + 1, FALSE)
    ELSE FieldCount(s[i]) - (IF inField THEN 1 ELSE 0) + CountFrom(s, i + 1, TRUE)

Count(text) == CountFrom(text, 1, FALSE)

\* strings.Join(parts, sep)
RECURSIVE Join(_, _)
Join(parts, sep) ==
    IF parts = << >> THEN << >>
    ELSE IF Len(parts) = 1 THEN parts[1]
    ELSE parts[1] \o sep \o Join(Tail(parts), sep)

\* ExtractTextFromMessages for messages whose Content is a string
ExtractTextFromMessages(msgs) == Join(msgs, << "sp" >>)

CountTokens(msgs) == Count(ExtractTextFromMessages(msgs))

(***************************************************************************)
(* Upstream body: the lines bufio.Scanner yields.  A line is               *)
(* [prefix, payload]; prefix is what the line starts with, payload what    *)
(* follows it:  [t |-> "none"]  nothing,  [t |-> "done"]  [DONE],          *)
(* [t |-> "bad"]  text that is no JSON,  [t |-> "json", obj |-> o]  a      *)
(* JSON object o, a record holding only the fields the text spells out.    *)
(***************************************************************************)
BlankLine     == [prefix |-> "", payload |-> [t |-> "none"]]
HeartbeatLine == [prefix |-> ": ", payload |-> [t |-> "none"]]
SentinelLine  == [prefix |-> "data: ", payload |-> [t |-> "done"]]
BadLine       == [prefix |-> "data: ", payload |-> [t |-> "bad"]]
DataLine(o)   == [prefix |-> "data: ", payload |-> [t |-> "json", obj |-> o]]

\* json.Unmarshal([]byte(data), &zaiResp): absent fields keep their zero value
UnmarshalZai(payload) ==
    IF payload.t # "json" THEN [err |-> TRUE, val |-> Nil]
    ELSE LET o == payload.obj
             d == IF Has(o, "data") THEN o.data ELSE Nil
         IN [err |-> FALSE,
             val |-> [Data |->
                 IF d = Nil THEN Nil
                 ELSE ZaiResponseData(getStr(d, "phase", ""),
                                      getStr(d, "delta_content", << >>),
                                      getStr(d, "edit_content", << >>),
                                      getStr(d, "done", FALSE))]]

\* one turn of ParseSSEStream's scan loop on a line: [send, val]
ScanLine(line) ==
    IF line.prefix # "data: " THEN [send |-> FALSE, val |-> Nil]
    ELSE IF line.payload.t = "done" THEN [send |-> FALSE, val |-> Nil]
    ELSE LET r == UnmarshalZai(line.payload)
         IN IF r.err THEN [send |-> FALSE, val |-> Nil]
            ELSE [send |-> TRUE, val |-> r.val]

(***************************************************************************)
(* Wire values                                                             *)
(***************************************************************************)
ResponseMessage(role, content, reasoning, toolCalls) ==
    [Role |-> role, Content |-> content, ReasoningContent |-> reasoning,
     ToolCalls |-> toolCalls]

\* domain.ChatResponse without ID, Created and Model
ChatResponse(object, choices, usage) ==
    [Object |-> object, Choices |-> choices, Usage |-> usage]

Usage(promptTokens, completionTokens) ==
    [PromptTokens |-> promptTokens, CompletionTokens |-> completionTokens,
     TotalTokens |-> promptTokens + completionTokens]

\* a nil FinishReason (JSON null)
NoReason == "null"

\* the line "data: [DONE]"
DoneLine == [Object |-> "[DONE]"]

(***************************************************************************)
(* zlmStreamResponse                                                       *)
(***************************************************************************)
\* the locals before the loop
StreamFrame(includeUsage, msgs) ==
    [prevPhase       |-> "thinking",
     includeUsage    |-> includeUsage,
     promptTokens    |-> IF includeUsage THEN CountTokens(msgs) ELSE 0,
     parts           |-> << >>,
     toolCallBuffer  |-> << >>,
     pendingToolCall |-> Nil]

\* a chunk whose single choice carries the delta msg
DeltaChunk(msg) ==
    ChatResponse("chat.completion.chunk", << [Delta |-> msg, FinishReason |-> NoReason] >>, Nil)

\* the loop body: parts after the includeUsage block
StreamParts(f, delta) ==
    IF ~f.includeUsage THEN f.parts
    ELSE f.parts
         \o (IF Has(delta, "content") THEN << delta.content >> ELSE << >>)
         \o (IF Has(delta, "reasoning_content") THEN << delta.reasoning_content >> ELSE << >>)

\* a tool_call delta whose parsed buffer is not cleared
StreamToolCallKeepsBuffer(f, buf, parsed) ==
    IF parsed # Nil
    THEN [frame |-> [f EXCEPT !.pendingToolCall = parsed, !.toolCallBuffer = buf],
          out   |-> << DeltaChunk(ResponseMessage("assistant", << >>, << >>, << parsed >>)) >>]
    ELSE [frame |-> [f EXCEPT !.toolCallBuffer = buf], out |-> << >>]

\* a tool_call delta whose fragment is written as content while no block
\* is complete
StreamToolCallForwardsFragment(f, buf, parsed) ==
    IF parsed # Nil
    THEN [frame |-> [f EXCEPT !.pendingToolCall = parsed, !.toolCallBuffer = << >>],
          out   |-> << DeltaChunk(ResponseMessage("assistant", << >>, << >>, << parsed >>)) >>]
    ELSE [frame |-> [f EXCEPT !.toolCallBuffer = buf],
          out   |-> << DeltaChunk(ResponseMessage("assistant", buf, << >>, << >>)) >>]

\* the loop body: a tool_call delta, buf the buffer with the fragment appended
\* and parsed what ParseToolCall makes of it
StreamToolCall(f, buf, parsed) ==
    IF parsed # Nil
    THEN [frame |-> [f EXCEPT !.pendingToolCall = parsed, !.toolCallBuffer = << >>],
          out   |-> << DeltaChunk(ResponseMessage("assistant", << >>, << >>, << parsed >>)) >>]
    ELSE [frame |-> [f EXCEPT !.toolCallBuffer = buf], out |-> << >>]

\* the loop body: the message built from a delta that is no tool_call
StreamMessage(delta) ==
    ResponseMessage(getStr(delta, "role", ""),
        IF getStr(delta, "content", << >>) # << >>
        THEN StripToolCallBlock(delta.content) ELSE << >>,
        getStr(delta, "reasoning_content", << >>), << >>)

\* a loop body that writes msg twice
StreamWriteTwice(f, msg) ==
    [frame |-> f, out |-> << DeltaChunk(msg), DeltaChunk(msg) >>]

\* the loop body: msg is written unless it is empty
StreamWrite(f, msg) ==
    IF msg.Content = << >> /\ msg.ReasoningContent = << >> /\ msg.Role = ""
    THEN [frame |-> f, out |-> << >>]
    ELSE [frame |-> f, out |-> << DeltaChunk(msg) >>]

\* the loop body from `if delta == nil` on
StreamOnDelta(f, delta, uuid) ==
    IF delta = Nil THEN [frame |-> f, out |-> << >>]
    ELSE IF Has(delta, "tool_call")
    THEN StreamToolCall([f EXCEPT !.parts = StreamParts(f, delta)],
                        f.toolCallBuffer \o delta.tool_call,
                        ParseToolCall(f.toolCallBuffer \o delta.tool_call, uuid))
    ELSE StreamWrite([f EXCEPT !.parts = StreamParts(f, delta)], StreamMessage(delta))

\* one turn of the range loop: [frame, out], out the chunks written and flushed
StreamAfterFormat(f, r, uuid) ==
    StreamOnDelta([f EXCEPT !.prevPhase = r.prevPhase], r.delta, uuid)

StreamLoopBody(f, thinkMode, zai, uuid) ==
    StreamAfterFormat(f, Format(f.prevPhase, thinkMode, zai), uuid)

\* a finish reason that takes a buffered fragment for a tool call
StreamFinishReasonByBuffer(f) ==
    IF f.pendingToolCall # Nil \/ f.toolCallBuffer # << >> THEN "tool_calls" ELSE "stop"

\* a finish reason that ignores the pending tool call
StreamFinishReasonAlwaysStop(f) == "stop"

\* the finish reason chosen after the loop
StreamFinishReason(f) ==
    IF f.pendingToolCall # Nil THEN "tool_calls" ELSE "stop"

\* a closing chunk that carries no finish reason
StreamStopChunkNoReason(f) ==
    ChatResponse("chat.completion.chunk",
        << [Delta |-> ResponseMessage("assistant", << >>, << >>, << >>),
            FinishReason |-> NoReason] >>, Nil)

\* the terminal chunk
StreamStopChunk(f) ==
    ChatResponse("chat.completion.chunk",
        << [Delta |-> ResponseMessage("assistant", << >>, << >>, << >>),
            FinishReason |-> StreamFinishReason(f)] >>, Nil)

\* the usage chunk
StreamUsageChunk(f) ==
    ChatResponse("chat.completion.chunk", << >>,
        Usage(f.promptTokens, Count(Join(f.parts, << >>))))

(***************************************************************************)
(* zlmNonStreamResponse                                                    *)
(***************************************************************************)
AggFrame ==
    [prevPhase      |-> "thinking",
     contentParts   |-> << >>,
     reasoningParts |-> << >>,
     toolCallBuffer |-> << >>,
     toolCalls      |-> << >>]

\* the loop body: contentParts after a delta
AggContentParts(f, delta) ==
    IF Has(delta, "content") /\ StripToolCallBlock(delta.content) # << >>
    THEN Append(f.contentParts, StripToolCallBlock(delta.content))
    ELSE f.contentParts

\* the loop body from `if delta == nil` on, without the break
AggOnDelta(f, delta) ==
    IF delta = Nil THEN f
    ELSE [f EXCEPT
            !.contentParts   = AggContentParts(f, delta),
            !.reasoningParts = IF Has(delta, "reasoning_content")
                               THEN Append(f.reasoningParts, delta.reasoning_content)
                               ELSE f.reasoningParts,
            !.toolCallBuffer = IF Has(delta, "tool_call")
                               THEN f.toolCallBuffer \o delta.tool_call
                               ELSE f.toolCallBuffer]

\* one turn of the range loop: [frame, brk], brk when the loop breaks
AggAfterFormat(f, r, zai) ==
    [frame |-> AggOnDelta([f EXCEPT !.prevPhase = r.prevPhase], r.delta),
     brk   |-> /\ r.delta # Nil
               /\ zai.Data # Nil
               /\ zai.Data.Done]

AggLoopBody(f, thinkMode, zai) ==
    AggAfterFormat(f, Format(f.prevPhase, thinkMode, zai), zai)

\* the tool calls after the final parse attempt
AggToolCalls(f, uuid) ==
    IF f.toolCallBuffer # << >> /\ ParseToolCall(f.toolCallBuffer, uuid) # Nil
    THEN Append(f.toolCalls, ParseToolCall(f.toolCallBuffer, uuid))
    ELSE f.toolCalls

AggFinishReason(toolCalls) ==
    IF Len(toolCalls) > 0 THEN "tool_calls" ELSE "stop"

\* the text whose tokens are the completion tokens
AggCompletionText(f) ==
    (IF Len(f.reasoningParts) > 0 THEN Join(f.reasoningParts, << >>) ELSE << >>)
    \o (IF Len(f.contentParts) > 0 THEN Join(f.contentParts, << >>) ELSE << >>)

\* a message that keeps its content beside the tool calls
AggMessageKeepsContent(f, toolCalls) ==
    ResponseMessage("assistant",
        IF Len(f.contentParts) > 0 THEN Join(f.contentParts, << >>) ELSE << >>,
        IF Len(f.reasoningParts) > 0 THEN Join(f.reasoningParts, << >>) ELSE << >>,
        toolCalls)

\* the message of the response
AggMessage(f, toolCalls) ==
    ResponseMessage("assistant",
        IF Len(toolCalls) > 0 THEN << >>
        ELSE IF Len(f.contentParts) > 0 THEN Join(f.contentParts, << >>) ELSE << >>,
        IF Len(f.reasoningParts) > 0 THEN Join(f.reasoningParts, << >>) ELSE << >>,
        toolCalls)

\* the response written after the loop
AggResponse(f, msgs, uuid) ==
    ChatResponse("chat.completion",
        << [Message |-> AggMessage(f, AggToolCalls(f, uuid)),
            FinishReason |-> AggFinishReason(AggToolCalls(f, uuid))] >>,
        Usage(CountTokens(msgs), Count(AggCompletionText(f))))

(***************************************************************************)
(* The inputs of one request                                               *)
(***************************************************************************)
\* the longest upstream body, in lines
MaxLines == 3

\* message texts of the request: "a" and "a a"
ReqMessages == << << "a" >>, << "a", "sp", "a" >> >>

\* JSON payloads {"data": {...}}
Ev(phase, text) == [data |-> [phase |-> phase, delta_content |-> text]]
EvDone(phase, text) == [data |-> [phase |-> phase, delta_content |-> text, done |-> TRUE]]
EvEdit(phase, text) == [data |-> [phase |-> phase, edit_content |-> text]]

\* a complete tool-call block that Format's rewrites leave alone
Block == << "OPEN", "JC", "CLOSE" >>

Payloads ==
    { Ev("answer", << "a" >>),
      EvDone("answer", << "sp", "a" >>),
      Ev("thinking", << "a" >>),
      Ev("tool_call", Block),
      EvEdit("tool_call", << "OPEN", "JC" >>),
      [data |-> [delta_content |-> << "CLOSE" >>]],
      Ev("answer", << "a" >> \o Block),
      [data |-> [phase |-> "answer", done |-> TRUE]] }

Lines == {BlankLine, HeartbeatLine, SentinelLine, BadLine} \cup {DataLine(o) : o \in Payloads}

\* the scan loop passes over a blank line, a heartbeat and the sentinel alike:
\* the bodies of up to MaxPassedOver lines hold every kind of line, the
\* longer ones hold none of the three
MaxPassedOver == 2

PassedOver == {BlankLine, HeartbeatLine, SentinelLine}

Bodies ==
    UNION {[1..n -> Lines] : n \in 0..MaxPassedOver}
    \cup UNION {[1..n -> Lines \ PassedOver] : n \in 0..MaxLines}

\* the think modes the requests run under
RunThinkModes == {"reasoning", "details"}

(***************************************************************************)
(* State                                                                   *)
(***************************************************************************)
VARIABLES
    thinkMode,      \* cfg.Model.ThinkMode
    stream,         \* req.Stream
    includeUsage,   \* req.StreamOpts != nil && req.StreamOpts.IncludeUsage
    body,           \* resp.Body, as lines
    scanPos,        \* the line scanner.Scan() yields next
    ppc,            \* the producer goroutine: "scan", "send" (blocked in ch <-), "closed"
    ch,             \* the value the producer is sending: [line, val]
    hpc,            \* the handler: "recv", "body", "stop", "usage", "sentinel", "finish", "done"
    zaiResp,        \* the loop variable of the handler's range loop
    frame,          \* the handler's locals
    wire,           \* what the streaming handler has written and flushed
    response,       \* the JSON response of the non-streaming handler, Nil until written
    delivered       \* history: the body lines whose event the handler received

vars == << thinkMode, stream, includeUsage, body, scanPos, ppc, ch, hpc, zaiResp,
           frame, wire, response, delivered >>

request  == << thinkMode, stream, includeUsage, body >>
producer == << scanPos, ppc, ch >>
output   == << wire, response >>

Init ==
    /\ thinkMode \in RunThinkModes
    /\ stream \in BOOLEAN
    /\ includeUsage \in (IF stream THEN BOOLEAN ELSE {FALSE})
    /\ body \in Bodies
    /\ scanPos = 1
    /\ ppc = "scan"
    /\ ch = Nil
    /\ hpc = "recv"
    /\ zaiResp = Nil
    /\ frame = IF stream THEN StreamFrame(includeUsage, ReqMessages) ELSE AggFrame
    /\ wire = << >>
    /\ response = Nil
    /\ delivered = << >>

(***************************************************************************)
(* ParseSSEStream's goroutine                                              *)
(***************************************************************************)
\* a scan loop that passes over the line after each one it sends
ScanSkipsNextLine ==
    /\ ppc = "scan"
    /\ scanPos <= Len(body)
    /\ IF ScanLine(body[scanPos]).send
       THEN /\ ppc' = "send"
            /\ ch' = [line |-> scanPos, val |-> ScanLine(body[scanPos]).val]
            /\ scanPos' = scanPos + 2
       ELSE /\ UNCHANGED << ppc, ch >>
            /\ scanPos' = scanPos + 1
    /\ UNCHANGED << request, hpc, zaiResp, frame, output, delivered >>

\* a scan loop that reads on while its send has not been taken
ScanReadsAhead ==
    /\ ppc \in {"scan", "send"}
    /\ scanPos <= Len(body)
    /\ IF ScanLine(body[scanPos]).send
       THEN ppc' = "send" /\ ch' = [line |-> scanPos, val |-> ScanLine(body[scanPos]).val]
       ELSE UNCHANGED << ppc, ch >>
    /\ scanPos' = scanPos + 1
    /\ UNCHANGED << request, hpc, zaiResp, frame, output, delivered >>

\* a scan loop that returns, closing ch, on a line that fails to decode
ScanAbortsOnDecodeError ==
    /\ ppc = "scan"
    /\ scanPos <= Len(body)
    /\ IF body[scanPos] = BadLine
       THEN ppc' = "closed" /\ ch' = ch
       ELSE IF ScanLine(body[scanPos]).send
       THEN ppc' = "send" /\ ch' = [line |-> scanPos, val |-> ScanLine(body[scanPos]).val]
       ELSE UNCHANGED << ppc, ch >>
    /\ scanPos' = scanPos + 1
    /\ UNCHANGED << request, hpc, zaiResp, frame, output, delivered >>

\* scanner.Scan() yields a line: it is skipped, or its event is offered on ch
Scan ==
    /\ ppc = "scan"
    /\ scanPos <= Len(body)
    /\ LET r == ScanLine(body[scanPos])
       IN IF r.send
          THEN ppc' = "send" /\ ch' = [line |-> scanPos, val |-> r.val]
          ELSE UNCHANGED << ppc, ch >>
    /\ scanPos' = scanPos + 1
    /\ UNCHANGED << request, hpc, zaiResp, frame, output, delivered >>

\* a goroutine that returns at the end of the body without closing ch
ScanEndWithoutClose ==
    /\ ppc = "scan"
    /\ scanPos > Len(body)
    /\ ppc' = "returned"
    /\ UNCHANGED << request, scanPos, ch, hpc, zaiResp, frame, output, delivered >>

\* scanner.Scan() returns false: the deferred close(ch) runs
ScanEnd ==
    /\ ppc = "scan"
    /\ scanPos > Len(body)
    /\ ppc' = "closed"
    /\ UNCHANGED << request, scanPos, ch, hpc, zaiResp, frame, output, delivered >>

(***************************************************************************)
(* The handler's range loop over the unbuffered channel                    *)
(***************************************************************************)
\* the rendezvous: the blocked send and the receive complete together
Recv ==
    /\ hpc = "recv"
    /\ ppc = "send"
    /\ zaiResp' = ch.val
    /\ delivered' = Append(delivered, ch.line)
    /\ ch' = Nil
    /\ ppc' = "scan"
    /\ hpc' = "body"
    /\ UNCHANGED << request, scanPos, frame, output >>

StreamTurn(r) ==
    /\ frame' = r.frame
    /\ wire' = wire \o r.out

\* zlmStreamResponse: the loop body
StreamBody ==
    /\ stream
    /\ hpc = "body"
    /\ \E uuid \in UUIDs : StreamTurn(StreamLoopBody(frame, thinkMode, zaiResp, uuid))
    /\ hpc' = "recv"
    /\ UNCHANGED << request, producer, zaiResp, response, delivered >>

\* a handler that returns at once when the channel closes before the body's end
StreamClosedReturnsOnDrop ==
    /\ stream
    /\ hpc = "recv"
    /\ ppc = "closed"
    /\ hpc' = IF scanPos <= Len(body) THEN "done" ELSE "stop"
    /\ UNCHANGED << request, producer, zaiResp, frame, output, delivered >>

\* zlmStreamResponse: the channel is closed, the loop ends
StreamClosed ==
    /\ stream
    /\ hpc = "recv"
    /\ ppc = "closed"
    /\ hpc' = "stop"
    /\ UNCHANGED << request, producer, zaiResp, frame, output, delivered >>

\* a terminal chunk always followed by a usage chunk
StreamStopThenUsage ==
    /\ hpc = "stop"
    /\ wire' = Append(wire, StreamStopChunk(frame))
    /\ hpc' = "usage"
    /\ UNCHANGED << request, producer, zaiResp, frame, response, delivered >>

\* zlmStreamResponse: the terminal chunk
StreamStop ==
    /\ hpc = "stop"
    /\ wire' = Append(wire, StreamStopChunk(frame))
    /\ hpc' = IF frame.includeUsage THEN "usage" ELSE "sentinel"
    /\ UNCHANGED << request, producer, zaiResp, frame, response, delivered >>

\* zlmStreamResponse: the usage chunk
StreamUsage ==
    /\ hpc = "usage"
    /\ wire' = Append(wire, StreamUsageChunk(frame))
    /\ hpc' = "sentinel"
    /\ UNCHANGED << request, producer, zaiResp, frame, response, delivered >>

\* a handler that returns without writing data: [DONE]
StreamSentinelSkipped ==
    /\ hpc = "sentinel"
    /\ hpc' = "done"
    /\ UNCHANGED << request, producer, zaiResp, frame, output, delivered >>

\* zlmStreamResponse: data: [DONE]
StreamSentinel ==
    /\ hpc = "sentinel"
    /\ wire' = Append(wire, DoneLine)
    /\ hpc' = "done"
    /\ UNCHANGED << request, producer, zaiResp, frame, response, delivered >>

\* zlmNonStreamResponse: the loop body, with its break on Done
AggBody ==
    /\ ~stream
    /\ hpc = "body"
    /\ frame' = AggLoopBody(frame, thinkMode, zaiResp).frame
    /\ hpc' = IF AggLoopBody(frame, thinkMode, zaiResp).brk THEN "finish" ELSE "recv"
    /\ UNCHANGED << request, producer, zaiResp, output, delivered >>

\* zlmNonStreamResponse: the channel is closed, the loop ends
AggClosed ==
    /\ ~stream
    /\ hpc = "recv"
    /\ ppc = "closed"
    /\ hpc' = "finish"
    /\ UNCHANGED << request, producer, zaiResp, frame, output, delivered >>

\* zlmNonStreamResponse: the response is built and written
AggFinish ==
    /\ hpc = "finish"
    /\ \E uuid \in UUIDs : response' = AggResponse(frame, ReqMessages, uuid)
    /\ hpc' = "done"
    /\ UNCHANGED << request, producer, zaiResp, frame, wire, delivered >>

Next ==
    \/ Scan
    \/ ScanEnd
    \/ Recv
    \/ StreamBody
    \/ StreamClosed
    \/ StreamStop
    \/ StreamUsage
    \/ StreamSentinel
    \/ AggBody
    \/ AggClosed
    \/ AggFinish

Spec == Init /\ [][Next]_vars

(***************************************************************************)
(* Reading the wire                                                        *)
(***************************************************************************)
IsChunk(c)    == c.Object = "chat.completion.chunk"
IsTerminal(c) == IsChunk(c) /\ Len(c.Choices) = 1 /\ c.Choices[1].FinishReason # NoReason
IsUsage(c)    == IsChunk(c) /\ c.Usage # Nil
IsDelta(c)    == IsChunk(c) /\ Len(c.Choices) = 1 /\ c.Choices[1].FinishReason = NoReason
IsToolChunk(c) == IsDelta(c) /\ c.Choices[1].Delta.ToolCalls # << >>

Terminals  == {i \in 1..Len(wire) : IsTerminal(wire[i])}
Usages     == {i \in 1..Len(wire) : IsUsage(wire[i])}
Sentinels  == {i \in 1..Len(wire) : wire[i] = DoneLine}
DeltaIdx   == {i \in 1..Len(wire) : IsDelta(wire[i])}
ToolChunks == {i \in 1..Len(wire) : IsToolChunk(wire[i])}

StreamDone == stream /\ hpc = "done"
AggDone    == ~stream /\ hpc = "done"

(***************************************************************************)
(* C1: finish_reason is "tool_calls" exactly when a ToolCall was produced  *)
(* during the request, and "stop" otherwise: in the terminal chunk of the  *)
(* streaming response (a tool-call chunk was written before it) and in     *)
(* the aggregated response (its message carries tool_calls).               *)
(***************************************************************************)
C1_FinishReason ==
    /\ \A i \in Terminals :
          /\ wire[i].Choices[1].FinishReason \in {"tool_calls", "stop"}
          /\ wire[i].Choices[1].FinishReason = "tool_calls"
                <=> \E j \in ToolChunks : j < i
    /\ response # Nil =>
          /\ response.Choices[1].FinishReason \in {"tool_calls", "stop"}
          /\ response.Choices[1].FinishReason = "tool_calls"
                <=> response.Choices[1].Message.ToolCalls # << >>

\* a finished stream that emitted a tool call and then further content
C1_Witness ==
    /\ StreamDone
    /\ \E j \in ToolChunks : \E k \in DeltaIdx \ ToolChunks : j < k
    /\ \E i \in Terminals : wire[i].Choices[1].FinishReason = "tool_calls"

(***************************************************************************)
(* C2: a streaming request writes no terminal chunk while the upstream     *)
(* sequence is being consumed, exactly one once it has ended, and every    *)
(* content, reasoning and tool-call chunk precedes it.                     *)
(***************************************************************************)
C2_OneTerminalChunk ==
    /\ Cardinality(Terminals) <= 1
    /\ Terminals # {} => ppc = "closed"
    /\ stream /\ hpc \in {"usage", "sentinel", "done"} => Cardinality(Terminals) = 1
    /\ \A i \in Terminals : \A j \in DeltaIdx : j < i

\* a finished stream whose terminal chunk follows content and tool-call chunks
C2_Witness ==
    /\ StreamDone
    /\ Cardinality(DeltaIdx) >= 2
    /\ ToolChunks # {}
    /\ Terminals # {}

(***************************************************************************)
(* C3: the sentinel data: [DONE] is written exactly once by a streaming    *)
(* request, as its last line: nothing is on the wire after it.             *)
(***************************************************************************)
C3_DoneLast ==
    /\ \A i \in Sentinels : i = Len(wire) /\ hpc = "done"
    /\ StreamDone => Sentinels = {Len(wire)} /\ Len(wire) >= 2

\* a finished stream with chunks before the sentinel
C3_Witness ==
    /\ StreamDone
    /\ Len(wire) >= 4
    /\ wire[Len(wire)] = DoneLine

(***************************************************************************)
(* C4: a usage chunk is on the wire only if the request set                *)
(* stream_options.include_usage; a finished stream then has exactly one,   *)
(* right after the terminal chunk and right before [DONE], and none        *)
(* without include_usage.                                                  *)
(***************************************************************************)
C4_UsageChunk ==
    /\ Usages # {} => includeUsage
    /\ Cardinality(Usages) <= 1
    /\ \A u \in Usages : u > 1 /\ IsTerminal(wire[u - 1])
    /\ StreamDone =>
          IF includeUsage
          THEN Usages = {Len(wire) - 1}
          ELSE Usages = {}

\* a finished stream with a usage chunk that counted completion text
C4_Witness ==
    /\ StreamDone
    /\ includeUsage
    /\ \E u \in Usages : wire[u].Usage.CompletionTokens > 0

(***************************************************************************)
(* Reference readings of the upstream body                                 *)
(***************************************************************************)
\* the lines of b, from line i on, whose event ParseSSEStream offers
RECURSIVE Deliverable(_, _)
Deliverable(b, i) ==
    IF i > Len(b) THEN << >>
    ELSE (IF ScanLine(b[i]).send THEN << i >> ELSE << >>) \o Deliverable(b, i + 1)

\* the events of the lines idx
EventsOf(idx) == [k \in 1..Len(idx) |-> ScanLine(body[idx[k]]).val]

\* the events the handler has finished with
Processed ==
    EventsOf(IF hpc = "body" THEN SubSeq(delivered, 1, Len(delivered) - 1) ELSE delivered)

\* the normalized deltas of evs, for a normalizer whose previous phase is prev
RECURSIVE NormalizedDeltas(_, _)
\* r is what Format returned for the event before rest
DeltasAfter(r, rest) ==
    (IF r.delta = Nil THEN << >> ELSE << r.delta >>) \o NormalizedDeltas(rest, r.prevPhase)

NormalizedDeltas(evs, prev) ==
    IF evs = << >> THEN << >>
    ELSE DeltasAfter(Format(prev, thinkMode, Head(evs)), Tail(evs))

\* what a chunk carries: content text, reasoning text, tool calls
Carried(content, reasoning, toolCalls) ==
    [content |-> content, reasoning |-> reasoning, toolCalls |-> toolCalls]

\* a ToolCall without the random part of a generated id
SameId(tc) == [tc EXCEPT !.ID = IF @ \in UUIDs THEN "call_" ELSE @]

CarriedBy(c) ==
    Carried(c.Choices[1].Delta.Content, c.Choices[1].Delta.ReasoningContent,
            [k \in 1..Len(c.Choices[1].Delta.ToolCalls) |->
                SameId(c.Choices[1].Delta.ToolCalls[k])])

\* what the delta chunks on the wire carry, in wire order
RECURSIVE CarriedFrom(_)
CarriedFrom(i) ==
    IF i > Len(wire) THEN << >>
    ELSE (IF IsDelta(wire[i]) THEN << CarriedBy(wire[i]) >> ELSE << >>) \o CarriedFrom(i + 1)

\* the inputs of the Stream Assembler for the deltas ds, the tool-call
\* buffer holding buf: a content or reasoning delta as it is, and a ToolCall
\* whenever the buffered fragments parse.  strip: content is carried with
\* complete tool-call blocks removed.
RECURSIVE AssemblerInputs(_, _, _)
AssemblerInputs(ds, buf, strip) ==
    IF ds = << >> THEN << >>
    ELSE IF Has(Head(ds), "tool_call")
    THEN IF ParseToolCall(buf \o Head(ds).tool_call, "call_u1") # Nil
         THEN << Carried(<< >>, << >>,
                    << SameId(ParseToolCall(buf \o Head(ds).tool_call, "call_u1")) >>) >>
              \o AssemblerInputs(Tail(ds), << >>, strip)
         ELSE AssemblerInputs(Tail(ds), buf \o Head(ds).tool_call, strip)
    ELSE << Carried(IF ~Has(Head(ds), "content") THEN << >>
                    ELSE IF strip THEN StripToolCallBlock(Head(ds).content)
                    ELSE Head(ds).content,
                    getStr(Head(ds), "reasoning_content", << >>), << >>) >>
         \o AssemblerInputs(Tail(ds), buf, strip)

RECURSIVE UpToDone(_)
UpToDone(evs) ==
    IF evs = << >> THEN << >>
    ELSE IF Head(evs).Data # Nil /\ Head(evs).Data.Done THEN << Head(evs) >>
    ELSE << Head(evs) >> \o UpToDone(Tail(evs))

\* the aggregate frame after the events evs, none of them ending the loop
RECURSIVE AggFold(_, _)
AggFold(f, evs) ==
    IF evs = << >> THEN f
    ELSE AggFold(AggLoopBody(f, thinkMode, Head(evs)).frame, Tail(evs))

\* the aggregate frame when zlmNonStreamResponse's loop is run over evs
RECURSIVE AggRun(_, _)
AggRun(f, evs) ==
    IF evs = << >> THEN f
    ELSE IF AggLoopBody(f, thinkMode, Head(evs)).brk
    THEN AggLoopBody(f, thinkMode, Head(evs)).frame
    ELSE AggRun(AggLoopBody(f, thinkMode, Head(evs)).frame, Tail(evs))

\* the events of the whole body
BodyEvents == EventsOf(Deliverable(body, 1))

(***************************************************************************)
(* C6: the aggregated response is written only after the upstream          *)
(* sequence has ended or an event with done=true was received, whichever   *)
(* came first, and its message content is the in-order concatenation of    *)
(* the content fragments of exactly the events up to and including that    *)
(* point (the content being empty when the message carries tool calls).    *)
(***************************************************************************)
C6_AggregateContent ==
    response # Nil =>
        /\ Len(delivered) = Len(UpToDone(BodyEvents))
        /\ response.Choices[1].Message.Content =
              AggMessage(AggFold(AggFrame, UpToDone(BodyEvents)),
                         AggToolCalls(AggFold(AggFrame, UpToDone(BodyEvents)), "call_u1")).Content

(***************************************************************************)
(* C7: whenever the message of the aggregated response carries a non-empty *)
(* tool_calls list, its content is empty.                                  *)
(***************************************************************************)
C7_ToolCallsExcludeContent ==
    response # Nil /\ response.Choices[1].Message.ToolCalls # << >>
        => response.Choices[1].Message.Content = << >>

\* a response with a tool call, built from a frame that had collected content
C7_Witness ==
    /\ AggDone
    /\ response.Choices[1].Message.ToolCalls # << >>
    /\ frame.contentParts # << >>
    /\ response.Choices[1].Message.Content = << >>

(***************************************************************************)
(* C8: the completion-token count of the usage chunk of a streaming        *)
(* request equals the completion-token count the aggregated response       *)
(* reports for the same upstream body and the same request.                *)
(***************************************************************************)
C8_UsageEquality ==
    StreamDone /\ includeUsage =>
        \A i \in Usages :
            wire[i].Usage.CompletionTokens =
                AggResponse(AggRun(AggFrame, BodyEvents), ReqMessages, "call_u1")
                    .Usage.CompletionTokens

(***************************************************************************)
(* C9: no event decoded from a line that follows the sentinel line         *)
(* data: [DONE] in the body is delivered to the consumer.                  *)
(***************************************************************************)
C9_SentinelStops ==
    \A k \in 1..Len(delivered) :
        \A j \in 1..(delivered[k] - 1) : body[j] # SentinelLine

(***************************************************************************)
(* C10: when a line of the body fails to decode, no event is delivered for *)
(* it, every well-formed data line, those after it included, is delivered  *)
(* in body order once the producer has closed the channel and the loop has *)
(* ended, and the request completes normally: a stream ends with its       *)
(* terminal chunk and data: [DONE], an aggregate with its response.        *)
(***************************************************************************)
C10_DecodeFailureSkipped ==
    (\E j \in 1..Len(body) : body[j] = BadLine) =>
        /\ \A k \in 1..Len(delivered) : body[delivered[k]] # BadLine
        /\ ppc = "closed" /\ hpc \notin {"recv", "body"} => delivered = Deliverable(body, 1)
        /\ StreamDone => Terminals # {} /\ wire[Len(wire)] = DoneLine
        /\ AggDone => response # Nil /\ response.Object = "chat.completion"

\* a completed request that received a well-formed line following a malformed one
C10_Witness ==
    /\ hpc = "done"
    /\ \E k \in 1..Len(delivered) : \E j \in 1..(delivered[k] - 1) : body[j] = BadLine
    /\ delivered = Deliverable(body, 1)
    /\ stream => wire[Len(wire)] = DoneLine
    /\ ~stream => response # Nil

(***************************************************************************)
(* Reference readings for the handoff                                      *)
(***************************************************************************)
\* the lines of b before line n whose event ParseSSEStream offers
RECURSIVE DeliverableBefore(_, _, _)
DeliverableBefore(b, i, n) ==
    IF i >= n \/ i > Len(b) THEN << >>
    ELSE (IF ScanLine(b[i]).send THEN << i >> ELSE << >>) \o DeliverableBefore(b, i + 1, n)

\* the lines whose event the producer holds in a blocked send
InFlight == IF ppc = "send" THEN << ch.line >> ELSE << >>

\* the line whose event the handler received last, 0 before the first
LastDelivered == IF delivered = << >> THEN 0 ELSE delivered[Len(delivered)]

\* the handler has left its range loop
LoopEnded == hpc \notin {"recv", "body"}

(***************************************************************************)
(* C11: the lines whose events the consumer has received are, each once    *)
(* and in body order, lines that begin with "data: ", are not the sentinel *)
(* and decode: at every moment they are all such lines of the body up to   *)
(* the line received last, and none is left after it once the producer has *)
(* closed the channel and the consumer's loop has ended; the event         *)
(* received for a line is the event that line decodes to.                  *)
(***************************************************************************)
C11_DeliveredInOrder ==
    /\ delivered = DeliverableBefore(body, 1, LastDelivered + 1)
    /\ \A k \in 1..Len(delivered) :
          /\ body[delivered[k]].prefix = "data: "
          /\ body[delivered[k]] # SentinelLine
          /\ body[delivered[k]].payload.t = "json"
    /\ hpc = "body" => zaiResp = UnmarshalZai(body[LastDelivered].payload).val
    /\ ppc = "closed" /\ LoopEnded => Deliverable(body, LastDelivered + 1) = << >>

\* a finished stream that received two events from a body holding a line
\* that yields no event between the two data lines
C11_Witness ==
    /\ StreamDone
    /\ Len(delivered) >= 2
    /\ \E j \in 1..Len(body) :
          /\ body[j] \in PassedOver \cup {BadLine}
          /\ delivered[1] < j
          /\ j < delivered[Len(delivered)]

(***************************************************************************)
(* C12: at most one decoded event has been read by the producer and not    *)
(* yet received: the data lines read so far are the received ones followed *)
(* by at most the one held in the blocked send, and while an event is held *)
(* the line scanned last is the line it came from.                         *)
(***************************************************************************)
C12_Backpressure ==
    /\ DeliverableBefore(body, 1, scanPos) = delivered \o InFlight
    /\ ppc = "send" => ch # Nil /\ ch.line = scanPos - 1
    /\ ppc # "send" => ch = Nil

\* the producer is blocked in its send while the handler is still in the
\* loop body of the event before, and the body has a further data line
C12_Witness ==
    /\ ppc = "send"
    /\ hpc = "body"
    /\ Len(delivered) >= 1
    /\ \E j \in scanPos..Len(body) : ScanLine(body[j]).send

(***************************************************************************)
(* The Formatter on its own: one Formatter, made by NewFormatter, whose    *)
(* Format is called with one event after another.  frame holds the         *)
(* formatter's prevPhase, the map the last call returned (delta) and the   *)
(* prevPhase that call started from (before); zaiResp is the event of the  *)
(* last call; hpc is "call" before a call and "ret" after it.              *)
(***************************************************************************)
\* the longest event text, in symbols
MaxText == 3

\* the symbols of the event texts
NormSymbols == {"a", "nl", "GT", "OPEN", "CLOSE", "SO", "SC", "DO", "RC"}

NormTexts == UNION {[1..n -> NormSymbols] : n \in 0..MaxText}

NormPhases == {"", "other", "thinking", "answer", "tool_call"}

\* the events: any phase with any delta_content, the same texts as
\* edit_content of an answer, and a response without data
NormEvents ==
    {[Data |-> ZaiResponseData(ph, t, << >>, FALSE)] : ph \in NormPhases, t \in NormTexts}
    \cup {[Data |-> ZaiResponseData("answer", << >>, t, FALSE)] : t \in NormTexts}
    \cup {[Data |-> Nil]}

NormFrame(prev, delta, before) == [prevPhase |-> prev, delta |-> delta, before |-> before]

NormInit ==
    /\ thinkMode \in ThinkModes
    /\ stream = FALSE
    /\ includeUsage = FALSE
    /\ body = << >>
    /\ scanPos = 1
    /\ ppc = "closed"
    /\ ch = Nil
    /\ hpc = "call"
    /\ zaiResp = Nil
    /\ frame = NormFrame("thinking", Nil, "thinking")
    /\ wire = << >>
    /\ response = Nil
    /\ delivered = << >>

\* delta := fmtr.Format(zaiResp)
FormatCall ==
    /\ hpc = "call"
    /\ \E ev \in NormEvents :
          /\ zaiResp' = ev
          /\ frame' = NormFrame(Format(frame.prevPhase, thinkMode, ev).prevPhase,
                                Format(frame.prevPhase, thinkMode, ev).delta,
                                frame.prevPhase)
    /\ hpc' = "ret"
    /\ UNCHANGED << request, producer, output, delivered >>

\* the caller is done with the delta; the formatter keeps its prevPhase
FormatReturn ==
    /\ hpc = "ret"
    /\ zaiResp' = Nil
    /\ frame' = NormFrame(frame.prevPhase, Nil, frame.prevPhase)
    /\ hpc' = "call"
    /\ UNCHANGED << request, producer, output, delivered >>

NormNext ==
    \/ FormatCall
    \/ FormatReturn

NormSpec == NormInit /\ [][NormNext]_vars

\* Format has returned from an event that carries data
Returned == hpc = "ret" /\ zaiResp # Nil /\ zaiResp.Data # Nil

\* the phase and the text of that event as the rules of the normalizer read them
EvPhase == IF zaiResp.Data.Phase = "" THEN "other" ELSE zaiResp.Data.Phase
EvText  == IF zaiResp.Data.DeltaContent # << >> THEN zaiResp.Data.DeltaContent
           ELSE zaiResp.Data.EditContent
EvMarkup == \E i \in 1..Len(EvText) : EvText[i] \in {"OPEN", "CLOSE"}

\* the effective phase of that event: tool_call for an other event that
\* follows a tool_call and holds the markup token, its own phase otherwise
EvEffective ==
    IF EvPhase = "other" /\ frame.before = "tool_call" /\ EvMarkup
    THEN "tool_call" ELSE EvPhase

(***************************************************************************)
(* C13 as stated: after every event, one whose delta_content and           *)
(* edit_content are both empty included, previous_phase is the event's     *)
(* effective phase.                                                        *)
(***************************************************************************)
C13_PrevPhaseAfterEveryEvent ==
    Returned => frame.prevPhase = EvEffective

(***************************************************************************)
(* C13 amended: after every event that carries text, one that yields no    *)
(* delta included, previous_phase is the event's effective phase; an event *)
(* without data or with delta_content and edit_content both empty leaves   *)
(* previous_phase as it was.                                               *)
(***************************************************************************)
C13_PrevPhaseAfterText ==
    hpc = "ret" =>
        IF zaiResp # Nil /\ zaiResp.Data # Nil /\ EvText # << >>
        THEN frame.prevPhase = EvEffective
        ELSE frame.prevPhase = frame.before /\ frame.delta = Nil

\* an event with text yielded no delta and changed previous_phase
C13_Witness ==
    /\ Returned
    /\ EvText # << >>
    /\ frame.delta = Nil
    /\ frame.prevPhase # frame.before

(***************************************************************************)
(* C14: an event whose phase is other (or empty) and that carries text is  *)
(* returned as a tool-call fragment exactly when previous_phase is         *)
(* tool_call and the text holds the tool-call markup token, and then       *)
(* previous_phase becomes tool_call, so that a following such event is a   *)
(* continuation again; in every other case it is returned as plain         *)
(* content, its text unchanged, and previous_phase becomes other.          *)
(***************************************************************************)
C14_PhaseResumption ==
    Returned /\ EvPhase = "other" /\ EvText # << >> =>
        /\ Has(frame.delta, "tool_call") <=> (frame.before = "tool_call" /\ EvMarkup)
        /\ IF frame.before = "tool_call" /\ EvMarkup
           THEN frame.prevPhase = "tool_call" /\ DOMAIN frame.delta = {"tool_call"}
           ELSE /\ frame.prevPhase = "other"
                /\ frame.delta = [role |-> "assistant", content |-> EvText]

\* an event without a phase, following a tool_call, was returned as a fragment
C14_Witness ==
    /\ Returned
    /\ zaiResp.Data.Phase = ""
    /\ frame.before = "tool_call"
    /\ Has(frame.delta, "tool_call")
    /\ frame.prevPhase = "tool_call"

(***************************************************************************)
(* C15: a delta returned by Format holds at most one of content,           *)
(* reasoning_content and tool_call; a tool-call fragment holds neither     *)
(* content nor reasoning_content (and no role).                            *)
(***************************************************************************)
C15_OneTextPerDelta ==
    hpc = "ret" /\ frame.delta # Nil =>
        /\ Cardinality(DOMAIN frame.delta \cap {"content", "reasoning_content", "tool_call"}) = 1
        /\ Has(frame.delta, "tool_call") => DOMAIN frame.delta = {"tool_call"}

\* a tool-call fragment with text was returned
C15_Witness ==
    /\ Returned
    /\ Has(frame.delta, "tool_call")
    /\ frame.delta.tool_call # << >>

(***************************************************************************)
(* C16 as stated: under think mode reasoning, an event of phase thinking,  *)
(* or of phase answer with the summary token in its text, is returned      *)
(* under reasoning_content and not under content.                          *)
(***************************************************************************)
C16_ThinkingRuleIsReasoning ==
    Returned /\ thinkMode = "reasoning" /\ EvText # << >>
        /\ (EvPhase = "thinking"
            \/ (EvPhase = "answer" /\ \E i \in 1..Len(EvText) : EvText[i] \in {"SO", "SC"}))
    => Has(frame.delta, "reasoning_content") /\ ~Has(frame.delta, "content")

(***************************************************************************)
(* C16 amended: under think mode reasoning, an event of phase thinking is  *)
(* returned under reasoning_content and not under content, whatever its    *)
(* text is rewritten to; an event of phase answer with the summary token   *)
(* in its text is rewritten by the thinking rule and returned under        *)
(* content, or not at all when the rewritten text is empty.                *)
(***************************************************************************)
C16_ThinkingPhaseIsReasoning ==
    Returned /\ thinkMode = "reasoning" /\ EvText # << >> =>
        /\ EvPhase = "thinking" =>
              /\ DOMAIN frame.delta = {"role", "reasoning_content"}
              /\ frame.delta.reasoning_content = formatThinking("reasoning", "thinking", EvText)
        /\ EvPhase = "answer" /\ (\E i \in 1..Len(EvText) : EvText[i] \in {"SO", "SC"}) =>
              IF formatThinking("reasoning", "answer", EvText) = << >>
              THEN frame.delta = Nil
              ELSE frame.delta = [role |-> "assistant",
                                  content |-> formatThinking("reasoning", "answer", EvText)]

\* under reasoning, an answer with a summary block was returned under content
C16_Witness ==
    /\ Returned
    /\ thinkMode = "reasoning"
    /\ EvPhase = "answer"
    /\ \E i \in 1..Len(EvText) : EvText[i] = "SO"
    /\ Has(frame.delta, "content")
    /\ frame.delta.content # EvText

(***************************************************************************)
(* Reference readings of the streaming loop body                           *)
(***************************************************************************)
\* the delta Format returns for the event the streaming handler is holding
HeldDelta == Format(frame.prevPhase, thinkMode, zaiResp).delta

\* the handler is about to feed a tool-call fragment
FeedsFragment == stream /\ hpc = "body" /\ Has(HeldDelta, "tool_call")

\* the buffer with that fragment appended
FedBuffer == frame.toolCallBuffer \o HeldDelta.tool_call

(***************************************************************************)
(* C17: in streaming mode, a step of the handler that feeds a tool-call    *)
(* fragment (the loop body run on a tool_call delta) leaves                *)
(* the buffer empty if the accumulated buffer parses, and equal to the     *)
(* buffer before followed by the fragment if it does not; every other step *)
(* leaves the buffer as it was.                                            *)
(***************************************************************************)
C17_ToolCallBuffer ==
    [][stream =>
          IF FeedsFragment /\ hpc' = "recv"
          THEN IF ParseToolCall(FedBuffer, "call_u1") # Nil
               THEN frame'.toolCallBuffer = << >>
               ELSE frame'.toolCallBuffer = FedBuffer
          ELSE frame'.toolCallBuffer = frame.toolCallBuffer]_vars

\* a block fed in two fragments: the first was kept, the second completed it
C17_Witness ==
    /\ StreamDone
    /\ body = << DataLine(EvEdit("tool_call", << "OPEN", "JC" >>)),
                 DataLine([data |-> [delta_content |-> << "CLOSE" >>]]) >>
    /\ Cardinality(ToolChunks) = 1
    /\ frame.toolCallBuffer = << >>
    /\ frame.pendingToolCall # Nil

(***************************************************************************)
(* The tool-call branch of the streaming loop on its own: one complete     *)
(* block is fed to it as consecutive fragments.  body holds the fragments, *)
(* scanPos the fragment fed next, frame the handler's locals, wire the     *)
(* chunks written, delivered the feeds that wrote a chunk.                 *)
(***************************************************************************)
\* payloads of a block: compact, spaced with and without id and arguments,
\* and the forms Format's rewrites leave
AsmPayloads ==
    { << "JC" >>,
      << "JH", "JM", "RES", "JT" >>,
      << "JH", "JN", "RES", "JT" >>,
      << "JH", "JN", "a", "RES", "JT" >>,
      << "JH", "JT" >>,
      << "LB", "JM", "QB" >>,
      << "LB", "JN", "a", "QB" >> }

AsmBlocks == {<< "OPEN" >> \o p \o << "CLOSE" >> : p \in AsmPayloads}

\* the ways to cut t into consecutive non-empty fragments
RECURSIVE Splits(_)
Splits(t) ==
    IF t = << >> THEN {<< >>}
    ELSE UNION {{<< SubSeq(t, 1, k) >> \o rest : rest \in Splits(SubSeq(t, k + 1, Len(t)))}
                : k \in 1..Len(t)}

AsmInit ==
    /\ thinkMode = "details"
    /\ stream = TRUE
    /\ includeUsage = FALSE
    /\ body \in UNION {Splits(b) : b \in AsmBlocks}
    /\ scanPos = 1
    /\ ppc = "closed"
    /\ ch = Nil
    /\ hpc = "feed"
    /\ zaiResp = Nil
    /\ frame = StreamFrame(FALSE, ReqMessages)
    /\ wire = << >>
    /\ response = Nil
    /\ delivered = << >>

\* a feed that parses the fragment instead of the accumulated buffer
FeedParsesFragment ==
    /\ hpc = "feed"
    /\ scanPos <= Len(body)
    /\ \E uuid \in UUIDs :
          /\ frame' = StreamToolCall(frame, frame.toolCallBuffer \o body[scanPos],
                          ParseToolCall(body[scanPos], uuid)).frame
          /\ wire' = wire \o StreamToolCall(frame, frame.toolCallBuffer \o body[scanPos],
                          ParseToolCall(body[scanPos], uuid)).out
    /\ delivered' = IF ParseToolCall(body[scanPos], "call_u1") # Nil
                    THEN Append(delivered, scanPos) ELSE delivered
    /\ scanPos' = scanPos + 1
    /\ UNCHANGED << request, ppc, ch, hpc, zaiResp, response >>

\* the loop body from `if tc, ok := delta["tool_call"]` on, tc the next fragment
Feed ==
    /\ hpc = "feed"
    /\ scanPos <= Len(body)
    /\ \E uuid \in UUIDs :
          /\ frame' = StreamToolCall(frame, frame.toolCallBuffer \o body[scanPos],
                          ParseToolCall(frame.toolCallBuffer \o body[scanPos], uuid)).frame
          /\ wire' = wire \o StreamToolCall(frame, frame.toolCallBuffer \o body[scanPos],
                          ParseToolCall(frame.toolCallBuffer \o body[scanPos], uuid)).out
    /\ delivered' = IF ParseToolCall(frame.toolCallBuffer \o body[scanPos], "call_u1") # Nil
                    THEN Append(delivered, scanPos) ELSE delivered
    /\ scanPos' = scanPos + 1
    /\ UNCHANGED << request, ppc, ch, hpc, zaiResp, response >>

\* the last fragment is fed
FeedEnd ==
    /\ hpc = "feed"
    /\ scanPos > Len(body)
    /\ hpc' = "fed"
    /\ UNCHANGED << request, producer, zaiResp, frame, output, delivered >>

AsmNext ==
    \/ Feed
    \/ FeedEnd

AsmSpec == AsmInit /\ [][AsmNext]_vars

\* the block the fragments make up
WholeBlock == Join(body, << >>)

\* the ToolCalls of the chunks written
EmittedCalls == [k \in 1..Len(wire) |-> wire[k].Choices[1].Delta.ToolCalls[1]]

(***************************************************************************)
(* C18 as stated: fed as N consecutive fragments, a complete block yields  *)
(* exactly one ToolCall, at the feed that completes the block, and that    *)
(* ToolCall is identical to the one the block yields when fed as a single  *)
(* fragment.                                                               *)
(***************************************************************************)
C18_SplitInvariance ==
    /\ hpc = "feed" /\ scanPos <= Len(body) => wire = << >>
    /\ scanPos > Len(body) =>
          /\ Len(wire) = 1
          /\ delivered = << Len(body) >>
          /\ \A uuid \in UUIDs : EmittedCalls[1] = ParseToolCall(WholeBlock, uuid)

(***************************************************************************)
(* C18 amended: fed as N consecutive fragments, a complete block yields    *)
(* exactly one ToolCall, at the feed that completes the block; it has the  *)
(* type, name and arguments of the ToolCall the block yields when fed as a *)
(* single fragment, and the same id when the block names one; when the     *)
(* block names no id, each feed generates its own "call_" id.              *)
(***************************************************************************)
C18_SplitInvarianceUpToId ==
    /\ hpc = "feed" /\ scanPos <= Len(body) => wire = << >>
    /\ scanPos > Len(body) =>
          /\ Len(wire) = 1
          /\ delivered = << Len(body) >>
          /\ \A uuid \in UUIDs :
                /\ SameId(EmittedCalls[1]) = SameId(ParseToolCall(WholeBlock, uuid))
                /\ ParseToolCall(WholeBlock, uuid).ID # uuid
                      => EmittedCalls[1] = ParseToolCall(WholeBlock, uuid)
          /\ frame.toolCallBuffer = << >>

\* a block without an id, fed in three or more fragments, has yielded its call
C18_Witness ==
    /\ hpc = "fed"
    /\ Len(body) >= 3
    /\ Len(wire) = 1
    /\ EmittedCalls[1].ID \in UUIDs
    /\ EmittedCalls[1].Function.Arguments = << "a" >>

(***************************************************************************)
(* C19: when the upstream sequence has ended with a tool-call buffer that  *)
(* is not empty and does not parse, the request completes normally and no  *)
(* tool call is made of the buffer: a stream ends with its terminal chunk  *)
(* and data: [DONE], the terminal chunk's finish_reason being "stop"       *)
(* unless a tool-call chunk was written earlier; an aggregate ends with    *)
(* its response, without tool_calls and with finish_reason "stop".         *)
(***************************************************************************)
C19_UnterminatedToolCall ==
    hpc = "done" /\ frame.toolCallBuffer # << >>
                 /\ ParseToolCall(frame.toolCallBuffer, "call_u1") = Nil =>
        /\ stream =>
              /\ Len(wire) >= 2
              /\ wire[Len(wire)] = DoneLine
              /\ Cardinality(Terminals) = 1
              /\ \A i \in Terminals :
                    wire[i].Choices[1].FinishReason =
                        IF ToolChunks = {} THEN "stop" ELSE "tool_calls"
              /\ (ToolChunks = {}) = (frame.pendingToolCall = Nil)
        /\ ~stream =>
              /\ response # Nil
              /\ response.Object = "chat.completion"
              /\ response.Choices[1].Message.ToolCalls = << >>
              /\ response.Choices[1].FinishReason = "stop"

\* a stream that ended with an open block in the buffer: it wrote no tool
\* call, and closed with finish_reason "stop" and data: [DONE]
C19_Witness ==
    /\ StreamDone
    /\ frame.toolCallBuffer = << "OPEN", "JC" >>
    /\ ToolChunks = {}
    /\ \E i \in Terminals : wire[i].Choices[1].FinishReason = "stop"
    /\ wire[Len(wire)] = DoneLine

(***************************************************************************)
(* A streaming request whose upstream connection may drop: the read under  *)
(* scanner.Scan() fails before some line of the body.                      *)
(***************************************************************************)
\* scanner.Scan() returns false with scanner.Err() set: the error is logged
\* and the deferred close(ch) runs; the lines from scanPos on are never read
ScanFail ==
    /\ ppc = "scan"
    /\ scanPos <= Len(body)
    /\ ppc' = "closed"
    /\ UNCHANGED << request, scanPos, ch, hpc, zaiResp, frame, output, delivered >>

DropInit == Init /\ stream

DropNext ==
    \/ Scan
    \/ ScanEnd
    \/ ScanFail
    \/ Recv
    \/ StreamBody
    \/ StreamClosed
    \/ StreamStop
    \/ StreamUsage
    \/ StreamSentinel

DropSpec == DropInit /\ [][DropNext]_vars

\* the producer has returned on a read error, lines of the body unread
ReadFailed == ppc = "closed" /\ scanPos <= Len(body)

(***************************************************************************)
(* C20 as stated: when the read has failed mid-stream, the streaming       *)
(* response carries no terminal finish_reason chunk and no [DONE].         *)
(***************************************************************************)
C20_DropEndsBare ==
    ReadFailed => Terminals = {} /\ Sentinels = {}

(***************************************************************************)
(* C20 amended: when the read has failed mid-stream, the handler sees only *)
(* a closed channel: the streaming response carries the chunks of the      *)
(* events read before the failure and then ends as after a complete body,  *)
(* with one terminal finish_reason chunk and data: [DONE] last.            *)
(***************************************************************************)
C20_DropEndsAsComplete ==
    /\ ReadFailed => delivered \o InFlight = DeliverableBefore(body, 1, scanPos)
    /\ ReadFailed /\ LoopEnded => delivered = DeliverableBefore(body, 1, scanPos)
    /\ ReadFailed /\ hpc \in {"usage", "sentinel", "done"} => Cardinality(Terminals) = 1
    /\ ReadFailed /\ hpc = "done" =>
          /\ wire[Len(wire)] = DoneLine
          /\ \A i \in Terminals : \A j \in DeltaIdx : j < i
          /\ Cardinality(DeltaIdx) <= Len(delivered)

\* the read failed after one event was delivered and before a further data
\* line; the response ended with a terminal chunk and data: [DONE]
C20_Witness ==
    /\ ReadFailed
    /\ hpc = "done"
    /\ Len(delivered) >= 1
    /\ DeltaIdx # {}
    /\ \E j \in scanPos..Len(body) : ScanLine(body[j]).send
    /\ Terminals # {}
    /\ wire[Len(wire)] = DoneLine

(***************************************************************************)
(* ChatCompletions: the request is decoded, validated, dispatched to the   *)
(* first provider that supports its model and sent upstream; then the      *)
(* provider's response handler runs.  Until the handler runs, frame holds  *)
(* the locals of ChatCompletions (r: r.Body, providers, req, p, calls: the *)
(* SendChatRequest calls made, err: what the last call returned), ppc is   *)
(* "none" (no producer goroutine yet) and response is the error body that  *)
(* writeErr wrote.  A model name is [prefix, rest], the prefix up to and   *)
(* including the first "-" when the name starts with coder- or vision-.    *)
(***************************************************************************)
\* cfg.Model.Default
DefaultModel == [prefix |-> "", rest |-> "GLM-4-6-API-V1"]

\* the model names of the requests
DispatchModels ==
    { [prefix |-> "", rest |-> ""],
      [prefix |-> "", rest |-> "GLM-4-Flash"],
      [prefix |-> "", rest |-> "gpt-4"],
      [prefix |-> "coder-", rest |-> "model"],
      [prefix |-> "coder-", rest |-> "x"],
      [prefix |-> "vision-", rest |-> "model"] }

\* a zlm client that supports every model name
SupportsModelAnyPrefix(prov, model) ==
    \/ prov.Name = "zlm"
    \/ model \in { [prefix |-> "coder-", rest |-> "model"],
                   [prefix |-> "vision-", rest |-> "model"] }

\* Client.SupportsModel of the zlm and of the qwen client
SupportsModel(prov, model) ==
    IF prov.Name = "zlm"
    THEN \/ model.prefix = "" /\ model.rest \in {"GLM-4-6-API-V1", "GLM-4-Flash", "GLM-4-Air", "GLM-4-Plus"}
         \/ model.prefix # "coder-" /\ model.prefix # "vision-"
    ELSE model \in { [prefix |-> "coder-", rest |-> "model"],
                     [prefix |-> "vision-", rest |-> "model"] }

\* the provider lists ChatCompletions is built with
ProviderLists ==
    {<< >>, << [Name |-> "zlm"] >>, << [Name |-> "qwen"] >>,
     << [Name |-> "zlm"], [Name |-> "qwen"] >>, << [Name |-> "qwen"], [Name |-> "zlm"] >>}

\* the messages arrays of the request bodies: one that validates, an empty
\* one, one with a role outside the oneof list, one with an empty role
MessageLists ==
    { << [Role |-> "system", Content |-> ReqMessages[1]],
         [Role |-> "user", Content |-> ReqMessages[2]] >>,
      << >>,
      << [Role |-> "user", Content |-> ReqMessages[1]],
         [Role |-> "bogus", Content |-> ReqMessages[2]] >>,
      << [Role |-> "", Content |-> ReqMessages[1]] >> }

\* r.Body: a first JSON value (text that is no JSON value, an array, null,
\* or a request object) and whether more text follows it
RequestBodies ==
    [value : {[json |-> "syntax"], [json |-> "array"], [json |-> "null"]}
             \cup [Model : DispatchModels, Messages : MessageLists, Stream : BOOLEAN,
                   StreamOpts : {Nil, [IncludeUsage |-> FALSE], [IncludeUsage |-> TRUE]}],
     trailing : BOOLEAN]

\* var req domain.ChatRequest
ZeroRequest ==
    [Model |-> [prefix |-> "", rest |-> ""], Messages |-> << >>, Stream |-> FALSE,
     StreamOpts |-> Nil]

\* json.NewDecoder(r.Body).Decode(&req): the first JSON value of the body is
\* decoded into req, what follows it is not read
Decode(r) ==
    IF ~Has(r.value, "json") THEN [err |-> FALSE, req |-> r.value]
    ELSE [err |-> r.value.json # "null", req |-> ZeroRequest]

\* validator.Validate(&req): Messages required,min=1,dive; Role required,oneof
Validate(req) ==
    /\ Len(req.Messages) >= 1
    /\ \A k \in 1..Len(req.Messages) :
          req.Messages[k].Role \in {"system", "user", "assistant", "tool"}

\* a loop that takes the head of the list without asking it
SelectProviderUnasked(providers, model) ==
    IF providers = << >> THEN Nil ELSE Head(providers)

\* the first provider of the list that supports the model, Nil when none does
RECURSIVE SelectProvider(_, _)
SelectProvider(providers, model) ==
    IF providers = << >> THEN Nil
    ELSE IF SupportsModel(Head(providers), model) THEN Head(providers)
    ELSE SelectProvider(Tail(providers), model)

\* writeErr(w, code, msg)
writeErr(code, msg) == [StatusCode |-> code, Message |-> msg]

\* the upstream bodies of the dispatched requests
DispatchBodies == {b \in Bodies : Len(b) <= 1}

DispatchInit ==
    /\ thinkMode \in RunThinkModes
    /\ stream = FALSE
    /\ includeUsage = FALSE
    /\ body = << >>
    /\ scanPos = 1
    /\ ppc = "none"
    /\ ch = Nil
    /\ hpc = "decode"
    /\ zaiResp = Nil
    /\ \E r \in RequestBodies, providers \in ProviderLists :
          frame = [r |-> r, providers |-> providers, req |-> ZeroRequest, p |-> Nil,
                   calls |-> << >>, err |-> FALSE]
    /\ wire = << >>
    /\ response = Nil
    /\ delivered = << >>

\* ChatCompletions: the body is decoded
DecodeRequest ==
    /\ hpc = "decode"
    /\ IF Decode(frame.r).err
       THEN /\ response' = writeErr(400, "invalid json")
            /\ hpc' = "done"
            /\ UNCHANGED << frame, stream >>
       ELSE /\ frame' = [frame EXCEPT !.req = Decode(frame.r).req]
            /\ stream' = Decode(frame.r).req.Stream
            /\ hpc' = "validate"
            /\ UNCHANGED response
    /\ UNCHANGED << thinkMode, includeUsage, body, producer, zaiResp, wire, delivered >>

\* ChatCompletions: the request is validated
ValidateRequest ==
    /\ hpc = "validate"
    /\ IF ~Validate(frame.req)
       THEN response' = writeErr(400, "validation failed") /\ hpc' = "done"
       ELSE UNCHANGED response /\ hpc' = "select"
    /\ UNCHANGED << request, producer, zaiResp, frame, wire, delivered >>

\* ChatCompletions: an empty model becomes the default, the provider is chosen
SelectModel(model) ==
    IF SelectProvider(frame.providers, model) = Nil
    THEN /\ response' = writeErr(400, "unsupported model")
         /\ hpc' = "done"
         /\ frame' = [frame EXCEPT !.req.Model = model]
    ELSE /\ UNCHANGED response
         /\ hpc' = "send"
         /\ frame' = [frame EXCEPT !.req.Model = model,
                                   !.p = SelectProvider(frame.providers, model)]

Select ==
    /\ hpc = "select"
    /\ SelectModel(IF frame.req.Model.prefix = "" /\ frame.req.Model.rest = ""
                   THEN DefaultModel ELSE frame.req.Model)
    /\ UNCHANGED << request, producer, zaiResp, wire, delivered >>

\* resp, err := p.SendChatRequest(&req, chatID): resp.Body or an error
Send ==
    /\ hpc = "send"
    /\ \E err \in BOOLEAN :
          /\ frame' = [frame EXCEPT !.calls = Append(@, frame.p), !.err = err]
          /\ body' \in (IF err THEN {<< >>} ELSE DispatchBodies)
    /\ hpc' = "sent"
    /\ UNCHANGED << thinkMode, stream, includeUsage, producer, zaiResp, output, delivered >>

\* a handler that sends again after an error
SendFailedRetries ==
    /\ hpc = "sent"
    /\ frame.err
    /\ hpc' = "send"
    /\ UNCHANGED << request, producer, zaiResp, frame, output, delivered >>

\* err != nil: the error is logged and answered
SendFailed ==
    /\ hpc = "sent"
    /\ frame.err
    /\ response' = writeErr(500, "failed to process request")
    /\ hpc' = "done"
    /\ UNCHANGED << request, producer, zaiResp, frame, wire, delivered >>

\* switch p.Name(), default: zlmStreamResponse or zlmNonStreamResponse starts,
\* with its locals and the goroutine of ParseSSEStream
Handle ==
    /\ hpc = "sent"
    /\ ~frame.err
    /\ frame.p.Name # "qwen"
    /\ includeUsage' = (stream /\ frame.req.StreamOpts # Nil /\ frame.req.StreamOpts.IncludeUsage)
    /\ frame' = IF stream
                THEN StreamFrame(includeUsage', [k \in 1..Len(frame.req.Messages) |->
                                                    frame.req.Messages[k].Content])
                ELSE AggFrame
    /\ ppc' = "scan"
    /\ hpc' = "recv"
    /\ UNCHANGED << thinkMode, stream, body, scanPos, ch, zaiResp, output, delivered >>

\* switch p.Name(), case "qwen": qwenStreamResponse or qwenNonStreamResponse
\* takes the response over
HandleQwen ==
    /\ hpc = "sent"
    /\ ~frame.err
    /\ frame.p.Name = "qwen"
    /\ hpc' = "qwen"
    /\ UNCHANGED << request, producer, zaiResp, frame, output, delivered >>

DispatchNext ==
    \/ DecodeRequest
    \/ ValidateRequest
    \/ Select
    \/ Send
    \/ SendFailed
    \/ Handle
    \/ HandleQwen
    \/ Scan
    \/ ScanEnd
    \/ Recv
    \/ StreamBody
    \/ StreamClosed
    \/ StreamStop
    \/ StreamUsage
    \/ StreamSentinel
    \/ AggBody
    \/ AggClosed
    \/ AggFinish

DispatchSpec == DispatchInit /\ [][DispatchNext]_vars

\* ChatCompletions has not handed the response to a handler
Dispatching == hpc \in {"decode", "validate", "select", "send", "sent"} \/ (hpc = "done" /\ ppc = "none")

(***************************************************************************)
(* C21: SendChatRequest is called only on the provider chosen, which is    *)
(* the first provider of the list whose SupportsModel holds for the        *)
(* request's model; when no provider of the list supports the model, the   *)
(* request is answered 400 "unsupported model" and SendChatRequest is      *)
(* called on no provider.                                                  *)
(***************************************************************************)
C21_ProviderDispatch ==
    Dispatching =>
        /\ \A k \in 1..Len(frame.calls) : frame.calls[k] = frame.p
        /\ hpc \in {"send", "sent"} \/ frame.calls # << >> => frame.p # Nil
        /\ frame.p # Nil =>
              \E i \in 1..Len(frame.providers) :
                  /\ frame.providers[i] = frame.p
                  /\ SupportsModel(frame.providers[i], frame.req.Model)
                  /\ \A j \in 1..(i - 1) : ~SupportsModel(frame.providers[j], frame.req.Model)
        /\ /\ hpc \notin {"decode", "validate", "select"}
           /\ Validate(frame.req)
           /\ \A i \in 1..Len(frame.providers) :
                 ~SupportsModel(frame.providers[i], frame.req.Model)
           => /\ hpc = "done"
              /\ response = writeErr(400, "unsupported model")
              /\ frame.calls = << >>

\* the request was sent to the second provider of the list, the first one
\* not supporting its model
C21_Witness ==
    /\ hpc = "sent"
    /\ Len(frame.providers) = 2
    /\ frame.calls = << frame.providers[2] >>
    /\ ~SupportsModel(frame.providers[1], frame.req.Model)

(***************************************************************************)
(* C22: a request body that is not valid JSON (its first value is no JSON  *)
(* value, or text follows the first value) or whose request fails          *)
(* validation is answered 400, and SendChatRequest is never called for it. *)
(***************************************************************************)
C22_MalformedRejected ==
    /\ Dispatching
    /\ \/ frame.r.trailing
       \/ frame.r.value = [json |-> "syntax"]
       \/ ~Decode(frame.r).err /\ ~Validate(Decode(frame.r).req)
    => /\ frame.calls = << >>
       /\ hpc \notin {"send", "sent"}
       /\ hpc = "done" => response # Nil /\ response.StatusCode = 400

(***************************************************************************)
(* C23: once SendChatRequest has returned an error, the only step of the   *)
(* handler is the one that answers 500: it writes the error response once, *)
(* calls SendChatRequest no further time and writes nothing on the stream. *)
(***************************************************************************)
C23_SendErrorAnswered ==
    [][Dispatching /\ frame.err =>
          /\ hpc = "sent"
          /\ hpc' = "done"
          /\ response = Nil
          /\ response' = writeErr(500, "failed to process request")
          /\ Len(frame.calls) = 1
          /\ frame'.calls = frame.calls
          /\ wire = << >>
          /\ wire' = << >>]_vars

\* SendChatRequest returned an error and the request was answered 500
C23_Witness ==
    /\ hpc = "done"
    /\ ppc = "none"
    /\ frame.err
    /\ response = writeErr(500, "failed to process request")
    /\ Len(frame.calls) = 1
    /\ wire = << >>

(***************************************************************************)
(* Two requests in flight: each handler made its own Formatter with        *)
(* NewFormatter and feeds it the events of its own upstream body; the      *)
(* Format calls of the two handlers interleave.  body is the pair of       *)
(* event sequences; frame[i] is request i's formatter (prevPhase), the     *)
(* number of its events formatted so far (pos) and the deltas Format       *)
(* returned to it (deltas); delivered lists the callers in call order.     *)
(***************************************************************************)
\* the longest event sequence of a request
MaxEvents == 2

\* the events of the two requests
PairEvents ==
    { [Data |-> ZaiResponseData("answer", << "a" >>, << >>, FALSE)],
      [Data |-> ZaiResponseData("thinking", << "a" >>, << >>, FALSE)],
      [Data |-> ZaiResponseData("tool_call", << >>, << "OPEN", "JC" >>, FALSE)],
      [Data |-> ZaiResponseData("other", << "CLOSE" >>, << >>, FALSE)] }

PairInit ==
    /\ thinkMode \in RunThinkModes
    /\ stream = TRUE
    /\ includeUsage = FALSE
    /\ body \in [1..2 -> UNION {[1..n -> PairEvents] : n \in 0..MaxEvents}]
    /\ scanPos = 1
    /\ ppc = "none"
    /\ ch = Nil
    /\ hpc = "body"
    /\ zaiResp = Nil
    /\ frame = [i \in 1..2 |-> [prevPhase |-> "thinking", pos |-> 1, deltas |-> << >>]]
    /\ wire = << >>
    /\ response = Nil
    /\ delivered = << >>

\* the phase memory of the early variant: one package variable, written by
\* whichever request formatted last
phaseBak(i) ==
    IF delivered = << >> THEN "thinking"
    ELSE frame[delivered[Len(delivered)]].prevPhase

\* f.prevPhase of request i's own Formatter
prevPhase(i) == frame[i].prevPhase

\* request i's formatter after Format returned r
Formatted(i, r) ==
    [frame EXCEPT ![i] = [prevPhase |-> r.prevPhase,
                          pos       |-> @.pos + 1,
                          deltas    |-> @.deltas \o (IF r.delta = Nil THEN << >>
                                                     ELSE << r.delta >>)]]

\* delta := fmtr.Format(zaiResp) in the handler of request i
PairFormat ==
    /\ hpc = "body"
    /\ \E i \in 1..2 :
          /\ frame[i].pos <= Len(body[i])
          /\ frame' = Formatted(i, Format(prevPhase(i), thinkMode, body[i][frame[i].pos]))
          /\ delivered' = Append(delivered, i)
    /\ UNCHANGED << request, producer, hpc, zaiResp, output >>

PairNext == PairFormat

PairSpec == PairInit /\ [][PairNext]_vars

(***************************************************************************)
(* C24: under every interleaving of the Format calls of two concurrent     *)
(* requests, the deltas each request has got are the normalized deltas of  *)
(* the events it has formatted, as it would get them if processed alone.   *)
(***************************************************************************)
C24_PhaseRequestScoped ==
    \A i \in 1..2 :
        frame[i].deltas =
            NormalizedDeltas(SubSeq(body[i], 1, frame[i].pos - 1), "thinking")

\* a request's tool_call fragment and the "other" event that resumes the
\* tool_call phase were formatted with a call of the other request, which
\* left another phase, between them
C24_Witness ==
    \E i \in 1..2 :
        /\ delivered = << i, 3 - i, i >>
        /\ body[i][1].Data.Phase = "tool_call"
        /\ body[i][2].Data.Phase = "other"
        /\ body[3 - i][1].Data.Phase = "answer"
        /\ Len(frame[i].deltas) = 2
        /\ Has(frame[i].deltas[2], "tool_call")

(***************************************************************************)
(* The thinking-markup rewrite alone: Format's steps from formatThinking   *)
(* on, applied to a text and then to the text it returned.  frame holds    *)
(* the phase, the text given first (input), the text of the last pass      *)
(* (content), the text that pass was given (before), the map returned for  *)
(* it (delta) and the number of passes made.                               *)
(***************************************************************************)
\* the longest text inside the wrapper, in symbols
MaxMarkup == 4

\* texts of a thinking or answer event: bare, or wrapped in <details>
RewriteTexts ==
    UNION { {t, << "DO" >> \o t \o << "DC" >>} :
            t \in UNION {[1..n -> {"a", "nl", "GT", "SO", "SC"}] : n \in 0..MaxMarkup} }

RewriteInit ==
    /\ thinkMode \in ThinkModes
    /\ stream = FALSE
    /\ includeUsage = FALSE
    /\ body = << >>
    /\ scanPos = 1
    /\ ppc = "none"
    /\ ch = Nil
    /\ hpc = "call"
    /\ zaiResp = Nil
    /\ \E phase \in {"thinking", "answer"}, t \in RewriteTexts :
          frame = [phase |-> phase, input |-> t, content |-> t, before |-> t,
                   delta |-> Nil, pass |-> 0]
    /\ wire = << >>
    /\ response = Nil
    /\ delivered = << >>

\* content = f.formatThinking(phase, content) and the map Format returns
Rewrite ==
    /\ hpc = "call"
    /\ frame.pass < 2
    /\ frame' = [frame EXCEPT
                    !.before  = frame.content,
                    !.content = formatThinking(thinkMode, frame.phase, frame.content),
                    !.delta   = DeltaOf(thinkMode, frame.phase,
                                    formatThinking(thinkMode, frame.phase, frame.content)),
                    !.pass    = @ + 1]
    /\ UNCHANGED << request, producer, hpc, zaiResp, output, delivered >>

RewriteNext == Rewrite

RewriteSpec == RewriteInit /\ [][RewriteNext]_vars

(***************************************************************************)
(* C25: for every think mode, the rewrite applied to a text that is its    *)
(* own output returns that text unchanged.                                 *)
(***************************************************************************)
C25_RewriteIdempotent ==
    frame.pass = 2 => frame.content = frame.before

\* one pass was made over a thinking-phase text wrapped in <details>
Wrapped ==
    /\ frame.pass = 1
    /\ frame.phase = "thinking"
    /\ Len(frame.input) >= 2
    /\ frame.input[1] = "DO"
    /\ frame.input[Len(frame.input)] = "DC"

C29_ReasoningWrapperStripped ==
    thinkMode = "reasoning" /\ Wrapped =>
        /\ frame.delta # Nil
        /\ "reasoning_content" \in DOMAIN frame.delta
        /\ \A k \in 1..Len(frame.delta.reasoning_content) :
              frame.delta.reasoning_content[k] \notin {"RO", "RC"}

(***************************************************************************)
(* ParseToolCall alone, on one block <glm_block tool_call_name="f">         *)
(* payload </glm_block>.  Every payload that names a function names "g"    *)
(* (symbols JM, JN, JC), so a Name of "f" is the tag's.  frame holds the   *)
(* block (content), the identifier GenerateID returned (uuid) and the      *)
(* ToolCall returned (call); hpc is "call" before the call, "ret" after.   *)
(***************************************************************************)
\* the longest payload, in symbols
MaxPayload == 5

ParseInit ==
    /\ thinkMode = "reasoning"
    /\ stream = FALSE
    /\ includeUsage = FALSE
    /\ body = << >>
    /\ scanPos = 1
    /\ ppc = "none"
    /\ ch = Nil
    /\ hpc = "call"
    /\ zaiResp = Nil
    /\ \E p \in UNION {[1..n -> {"JC", "JH", "JM", "JN", "RES", "JT", "a", "sp"}]
                       : n \in 0..MaxPayload} :
          frame = [content |-> << "OPEN" >> \o p \o << "CLOSE" >>, uuid |-> "", call |-> Nil]
    /\ wire = << >>
    /\ response = Nil
    /\ delivered = << >>

\* parsed := zlm.ParseToolCall(content)
Parse ==
    /\ hpc = "call"
    /\ \E uuid \in UUIDs :
          frame' = [frame EXCEPT !.uuid = uuid, !.call = ParseToolCall(frame.content, uuid)]
    /\ hpc' = "ret"
    /\ UNCHANGED << request, producer, zaiResp, output, delivered >>

ParseNext == Parse

ParseSpec == ParseInit /\ [][ParseNext]_vars

\* the payload between the tags of the block
PayloadOf(content) == SubSeq(content, 2, Len(content) - 1)

FlushInit ==
    /\ thinkMode \in RunThinkModes
    /\ stream = TRUE
    /\ includeUsage \in BOOLEAN
    /\ body \in Bodies
    /\ scanPos = 1
    /\ ppc = "scan"
    /\ ch = Nil
    /\ hpc = "recv"
    /\ zaiResp = Nil
    /\ frame = StreamFrame(includeUsage, ReqMessages)
    /\ wire = << >>
    /\ response = [buf |-> << >>, next |-> "recv"]
    /\ delivered = << >>

\* a Fprintf whose Flush is left out
FprintfUnflushed(out, next) ==
    /\ response' = [buf |-> response.buf \o out, next |-> next]
    /\ hpc' = next

\* fmt.Fprintf(w, "data: %s\n\n", data) for each chunk of out; next is the
\* statement after the flusher.Flush() that follows
Fprintf(out, next) ==
    /\ response' = [buf |-> response.buf \o out, next |-> next]
    /\ hpc' = IF out = << >> THEN next ELSE "flush"

WriteTurn(r) ==
    /\ frame' = r.frame
    /\ Fprintf(r.out, "recv")

\* the loop body up to its Fprintf
WriteBody ==
    /\ hpc = "body"
    /\ \E uuid \in UUIDs : WriteTurn(StreamLoopBody(frame, thinkMode, zaiResp, uuid))
    /\ UNCHANGED << request, producer, zaiResp, wire, delivered >>

\* the terminal chunk is written
WriteStop ==
    /\ hpc = "stop"
    /\ Fprintf(<< StreamStopChunk(frame) >>, IF frame.includeUsage THEN "usage" ELSE "sentinel")
    /\ UNCHANGED << request, producer, zaiResp, frame, wire, delivered >>

\* the usage chunk is written
WriteUsage ==
    /\ hpc = "usage"
    /\ Fprintf(<< StreamUsageChunk(frame) >>, "sentinel")
    /\ UNCHANGED << request, producer, zaiResp, frame, wire, delivered >>

\* data: [DONE] is written
WriteSentinel ==
    /\ hpc = "sentinel"
    /\ Fprintf(<< DoneLine >>, "done")
    /\ UNCHANGED << request, producer, zaiResp, frame, wire, delivered >>

\* flusher.Flush()
Flush ==
    /\ hpc = "flush"
    /\ wire' = wire \o response.buf
    /\ response' = [response EXCEPT !.buf = << >>]
    /\ hpc' = response.next
    /\ UNCHANGED << request, producer, zaiResp, frame, delivered >>

FlushNext ==
    \/ Scan
    \/ ScanEnd
    \/ Recv
    \/ StreamClosed
    \/ WriteBody
    \/ WriteStop
    \/ WriteUsage
    \/ WriteSentinel
    \/ Flush

FlushSpec == FlushInit /\ [][FlushNext]_vars

(***************************************************************************)
(* C28: at most one chunk is ever written and not yet flushed, and only    *)
(* between its Fprintf and the Flush that follows it: whenever the handler *)
(* is at any other statement, receiving the next event included, all that  *)
(* was written has been flushed; at the end every chunk is on the wire.    *)
(***************************************************************************)
C28_FlushedAtOnce ==
    /\ Len(response.buf) <= 1
    /\ hpc = "flush" <=> response.buf # << >>
    /\ hpc = "done" => wire # << >> /\ wire[Len(wire)] = DoneLine

\* two chunks were flushed one by one and the handler waits for an event
\* that the producer is offering
C28_Witness ==
    /\ hpc = "recv"
    /\ ppc = "send"
    /\ Len(wire) = 2
    /\ response.buf = << >>

(***************************************************************************)
(* C30: a step of the streaming loop on a tool_call delta writes one chunk *)
(* when the buffer with the fragment parses, and that chunk carries the    *)
(* parsed ToolCall alone in delta.tool_calls, with no content and no       *)
(* reasoning text, and the pending tool call (the saw-tool-call flag) is   *)
(* set to it; when the buffer does not parse the step writes nothing.  No  *)
(* other step writes a chunk with tool calls or changes the pending tool   *)
(* call, which is never reset.                                             *)
(***************************************************************************)
C30_ToolCallChunk ==
    [][/\ frame.pendingToolCall # Nil => frame'.pendingToolCall # Nil
       /\ IF FeedsFragment /\ hpc' # "body"
          THEN IF ParseToolCall(FedBuffer, "call_u1") # Nil
               THEN /\ Len(response'.buf) = 1
                    /\ IsDelta(response'.buf[1])
                    /\ response'.buf[1].Choices[1].Delta.ToolCalls = << frame'.pendingToolCall >>
                    /\ response'.buf[1].Choices[1].Delta.Content = << >>
                    /\ response'.buf[1].Choices[1].Delta.ReasoningContent = << >>
                    /\ \E uuid \in UUIDs : frame'.pendingToolCall = ParseToolCall(FedBuffer, uuid)
               ELSE /\ response'.buf = << >>
                    /\ frame'.pendingToolCall = frame.pendingToolCall
          ELSE /\ frame'.pendingToolCall = frame.pendingToolCall
               /\ response'.buf # response.buf =>
                     \A k \in 1..Len(response'.buf) : ~IsToolChunk(response'.buf[k])]_vars

\* a fragment that completed no block wrote nothing, the fragment after it
\* completed the block and wrote the one tool-call chunk; an answer followed
C30_Witness ==
    /\ hpc = "done"
    /\ body = << DataLine(EvEdit("tool_call", << "OPEN", "JC" >>)),
                 DataLine([data |-> [delta_content |-> << "CLOSE" >>]]),
                 DataLine(Ev("answer", << "a" >>)) >>
    /\ Cardinality(ToolChunks) = 1
    /\ Cardinality(DeltaIdx) = 2
    /\ IsToolChunk(wire[1])
    /\ frame.pendingToolCall # Nil
    /\ wire[Len(wire) - 1].Choices[1].FinishReason = "tool_calls"

(***************************************************************************)
(* The two handlers on answer-phase events whose text holds tool-call      *)
(* markup: every line of the body is a data line of phase "answer" whose   *)
(* delta_content is a text over a, newline, the opening tag and the        *)
(* closing tag.  The actions are those of Spec.                            *)
(***************************************************************************)
\* the longest content of one event, in symbols
MaxContent == 3

LeakTexts == UNION {[1..n -> {"a", "nl", "OPEN", "CLOSE"}] : n \in 1..MaxContent}

LeakBodies ==
    {<< DataLine(Ev("answer", t)) >> : t \in LeakTexts}
    \cup {<< DataLine(Ev("answer", t)), DataLine(Ev("answer", u)) >> :
            t \in LeakTexts, u \in {x \in LeakTexts : Len(x) <= 2}}

LeakInit ==
    /\ thinkMode = "reasoning"
    /\ stream \in BOOLEAN
    /\ includeUsage \in (IF stream THEN BOOLEAN ELSE {FALSE})
    /\ body \in LeakBodies
    /\ scanPos = 1
    /\ ppc = "scan"
    /\ ch = Nil
    /\ hpc = "recv"
    /\ zaiResp = Nil
    /\ frame = IF stream THEN StreamFrame(includeUsage, ReqMessages) ELSE AggFrame
    /\ wire = << >>
    /\ response = Nil
    /\ delivered = << >>

LeakSpec == LeakInit /\ [][Next]_vars

\* s holds an opening tag, at least one symbol of payload and a closing tag
HasBlock(s) ==
    \E i \in 1..Len(s) : \E j \in (i + 2)..Len(s) : s[i] = "OPEN" /\ s[j] = "CLOSE"

(***************************************************************************)
(* C31: no content sent to the client holds a complete tool-call block:    *)
(* neither the content of a chunk of the streaming response nor the        *)
(* content of the aggregated response.                                     *)
(***************************************************************************)
C31_NoBlockReachesClient ==
    /\ \A k \in DeltaIdx : ~HasBlock(wire[k].Choices[1].Delta.Content)
    /\ response # Nil => ~HasBlock(response.Choices[1].Message.Content)

(***************************************************************************)
(* C32: every chunk of the streaming response that is neither the terminal *)
(* chunk nor the usage chunk carries content, reasoning content or a tool  *)
(* call: a delta that is empty after the stripping is not sent as a chunk  *)
(* that holds a role only.                                                 *)
(***************************************************************************)
C32_ChunksCarrySomething ==
    \A k \in DeltaIdx \ Usages :
        \/ wire[k].Choices[1].Delta.Content # << >>
        \/ wire[k].Choices[1].Delta.ReasoningContent # << >>
        \/ wire[k].Choices[1].Delta.ToolCalls # << >>

(***************************************************************************)
(* The two handlers on one complete tool-call block that arrives split     *)
(* over tool_call-phase events: every line of the body is a data line of   *)
(* phase "tool_call" whose delta_content is the next fragment of the       *)
(* block.  The payload of the block is the JSON wrapper, compact or with   *)
(* blanks after the colons and commas, with or without the result key the  *)
(* upstream adds to the metadata.  The actions are those of Spec.          *)
(***************************************************************************)
WrapperBlocks ==
    { << "OPEN", "JC", "CLOSE" >>,
      << "OPEN", "JH", "JT", "CLOSE" >>,
      << "OPEN", "JH", "JM", "RES", "JT", "CLOSE" >> }

\* the data lines that carry the fragments fs
RECURSIVE FragmentLines(_)
FragmentLines(fs) ==
    IF fs = << >> THEN << >>
    ELSE << DataLine(Ev("tool_call", Head(fs))) >> \o FragmentLines(Tail(fs))

SplitInit ==
    /\ thinkMode \in RunThinkModes
    /\ stream \in BOOLEAN
    /\ includeUsage \in (IF stream THEN BOOLEAN ELSE {FALSE})
    /\ body \in {FragmentLines(fs) : fs \in UNION {Splits(b) : b \in WrapperBlocks}}
    /\ scanPos = 1
    /\ ppc = "scan"
    /\ ch = Nil
    /\ hpc = "recv"
    /\ zaiResp = Nil
    /\ frame = IF stream THEN StreamFrame(includeUsage, ReqMessages) ELSE AggFrame
    /\ wire = << >>
    /\ response = Nil
    /\ delivered = << >>

SplitSpec == SplitInit /\ [][Next]_vars

(***************************************************************************)
(* C33: when the tool_call-phase events of a request carry one complete    *)
(* block between them, however it is split, the finished streaming         *)
(* response holds exactly one tool-call chunk, and its ToolCall is named   *)
(* by the tag's tool_call_name.                                            *)
(***************************************************************************)
C33_OneToolCallAssembled ==
    StreamDone =>
        /\ Cardinality(ToolChunks) = 1
        /\ \A k \in ToolChunks :
              /\ Len(wire[k].Choices[1].Delta.ToolCalls) = 1
              /\ wire[k].Choices[1].Delta.ToolCalls[1].Function.Name = "f"

(***************************************************************************)
(* The two handlers on tool_call-phase events that carry more than one     *)
(* block between them: the fragments are the splits of two compact blocks, *)
(* of a block whose payload is no JSON followed by a compact block, and of *)
(* one compact block followed by text.  Format's rewrites leave every one  *)
(* of these fragments as it is, so the text the assembler is fed is the    *)
(* concatenation of the events' texts.  The actions are those of Spec.     *)
(***************************************************************************)
FragmentTexts ==
    { Block \o Block,
      << "OPEN", "a", "CLOSE" >> \o Block,
      Block \o << "a" >> }

BlocksInit ==
    /\ thinkMode = "details"
    /\ stream \in BOOLEAN
    /\ includeUsage \in (IF stream THEN BOOLEAN ELSE {FALSE})
    /\ body \in {FragmentLines(fs) : fs \in UNION {Splits(t) : t \in FragmentTexts}}
    /\ scanPos = 1
    /\ ppc = "scan"
    /\ ch = Nil
    /\ hpc = "recv"
    /\ zaiResp = Nil
    /\ frame = IF stream THEN StreamFrame(includeUsage, ReqMessages) ELSE AggFrame
    /\ wire = << >>
    /\ response = Nil
    /\ delivered = << >>

BlocksSpec == BlocksInit /\ [][Next]_vars

\* the text of all the tool_call fragments of the request
AllFragments == Join([l \in 1..Len(body) |-> body[l].payload.obj.data.delta_content], << >>)

\* the blocks of s from position i on whose payload parses: a block runs
\* from an opening tag to the first closing tag after its payload
RECURSIVE ParseableBlocks(_, _)
ParseableBlocks(s, i) ==
    IF FindFrom(glmBlockRegex, s, i) = 0 THEN 0
    ELSE (IF Unmarshal(Submatch(s, FindFrom(glmBlockRegex, s, i))).ok THEN 1 ELSE 0)
         + ParseableBlocks(s, MatchFrom(glmBlockRegex, 1, s, FindFrom(glmBlockRegex, s, i)))

(***************************************************************************)
(* C34: the finished streaming response holds as many tool-call chunks as  *)
(* the concatenation of the request's tool-call fragments holds complete   *)
(* blocks that parse.                                                      *)
(***************************************************************************)
C34_ChunkPerBlock ==
    StreamDone => Cardinality(ToolChunks) = ParseableBlocks(AllFragments, 1)

(***************************************************************************)
(* C35: the finish_reason of the terminal chunk of a finished streaming    *)
(* response is the finish_reason zlmNonStreamResponse gives the aggregated *)
(* response for the same upstream events, events after an event with       *)
(* done=true included.                                                     *)
(***************************************************************************)
C35_FinishReasonsAgree ==
    StreamDone =>
        \A k \in Terminals :
            wire[k].Choices[1].FinishReason =
                AggFinishReason(AggToolCalls(AggRun(AggFrame, BodyEvents), "call_u1"))

(***************************************************************************)
(* The producer goroutine and the handler under fair scheduling.  The Go   *)
(* scheduler runs every goroutine that can take a step, so the goroutine   *)
(* of ParseSSEStream and the handler each have weak fairness on their own  *)
(* steps; the receive is a step of the handler that needs the producer's   *)
(* pending send.  A read error (ScanFail) may happen or not.  The bodies   *)
(* are all sequences of at most MaxFair lines from FairLines.              *)
(***************************************************************************)
\* the longest upstream body of the fair runs, in lines
MaxFair == 3

FairLines ==
    { SentinelLine,
      DataLine(Ev("answer", << "a" >>)),
      DataLine(EvDone("answer", << "sp", "a" >>)),
      DataLine(Ev("tool_call", Block)) }

FairInit ==
    /\ thinkMode = "details"
    /\ stream \in BOOLEAN
    /\ includeUsage \in (IF stream THEN BOOLEAN ELSE {FALSE})
    /\ body \in UNION {[1..n -> FairLines] : n \in 0..MaxFair}
    /\ scanPos = 1
    /\ ppc = "scan"
    /\ ch = Nil
    /\ hpc = "recv"
    /\ zaiResp = Nil
    /\ frame = IF stream THEN StreamFrame(includeUsage, ReqMessages) ELSE AggFrame
    /\ wire = << >>
    /\ response = Nil
    /\ delivered = << >>

\* the steps the goroutine of ParseSSEStream takes when it is scheduled
ProducerStep == Scan \/ ScanEnd

\* the steps the handler takes when it is scheduled, the body of the
\* streaming loop apart
HandlerStep ==
    \/ Recv
    \/ StreamClosed
    \/ StreamStop
    \/ StreamUsage
    \/ StreamSentinel
    \/ AggBody
    \/ AggClosed
    \/ AggFinish

\* the streaming handler stands in its loop body.  StreamBody is enabled in
\* exactly these states and takes the handler back to the receive, so weak
\* fairness on StreamBody is: the handler is not in the loop body for ever
InLoopBody == stream /\ hpc = "body"

FairNext ==
    \/ Scan
    \/ ScanEnd
    \/ ScanFail
    \/ Recv
    \/ StreamBody
    \/ StreamClosed
    \/ StreamStop
    \/ StreamUsage
    \/ StreamSentinel
    \/ AggBody
    \/ AggClosed
    \/ AggFinish

FairSpec ==
    /\ FairInit
    /\ [][FairNext]_vars
    /\ WF_vars(ProducerStep)
    /\ WF_vars(HandlerStep)
    /\ []<>~InLoopBody

(***************************************************************************)
(* C36: in every fair run the goroutine of ParseSSEStream eventually       *)
(* returns and closes its channel, in non-streaming mode too, where the    *)
(* handler stops receiving at an event with done=true.                     *)
(***************************************************************************)
C36_ProducerCloses == <>(ppc = "closed")

(***************************************************************************)
(* C37: in every fair run of a streaming request the producer closes the   *)
(* channel, the handler's loop ends and the handler returns having written *)
(* the terminal chunk and, after it, data: [DONE] as its last line.        *)
(***************************************************************************)
C37_StreamCompletes ==
    <>(stream =>
          /\ ppc = "closed"
          /\ hpc = "done"
          /\ Cardinality(Terminals) = 1
          /\ wire[Len(wire)] = DoneLine
          /\ \A t \in Terminals : t < Len(wire))

\* a streaming response was completed after a read error cut the body short
\* behind a delivered event
C37_Witness ==
    /\ stream
    /\ hpc = "done"
    /\ ppc = "closed"
    /\ scanPos <= Len(body)
    /\ Len(delivered) = 2
    /\ Cardinality(Terminals) = 1
    /\ wire[Len(wire)] = DoneLine

(***************************************************************************)
(* The qwen client's SendChatRequest.  frame holds the active qwen token   *)
(* of the store (active: Nil, or its Token, a generation number that each  *)
(* refresh raises, and whether IsTokenExpired holds of its ExpiryDate),    *)
(* the number of upstream requests made so far (attempts) and the depth of *)
(* the recursion (depth); both counters stop counting at MaxAttempts.      *)
(* hpc is the statement the call stands at, response what the outermost    *)
(* call returned.  The upstream's answers and the outcome of RefreshToken  *)
(* are the environment's choice.                                           *)
(***************************************************************************)
\* the count at which attempts and depth stop counting
MaxAttempts == 3

\* the answers of the upstream to client.Do: a transport error, 200, 401,
\* another status whose body names an invalid or expired token, any other
Answers == {"error", "200", "401", "token expired", "other"}

UpTo(n) == IF n < MaxAttempts THEN n + 1 ELSE n

QwenInit ==
    /\ thinkMode = "details"
    /\ stream \in BOOLEAN
    /\ includeUsage = FALSE
    /\ body = << >>
    /\ scanPos = 1
    /\ ppc = "none"
    /\ ch = Nil
    /\ hpc = "getValidToken"
    /\ zaiResp = Nil
    /\ \E a \in {Nil} \cup {[Token |-> 0, Expired |-> e] : e \in BOOLEAN} :
          frame = [active |-> a, attempts |-> 0, depth |-> 0]
    /\ wire = << >>
    /\ response = Nil
    /\ delivered = << >>

\* refreshActiveToken on a store whose active token is a: the active token
\* afterwards, Nil when RefreshToken or store.Update failed
Refreshed(a, ok, expired) ==
    IF a = Nil \/ ~ok THEN Nil
    ELSE [Token |-> UpTo(a.Token), Expired |-> expired]

\* token, err := c.getValidToken(), the token not expired
getValidToken ==
    /\ hpc = "getValidToken"
    /\ IF frame.active = Nil
       THEN response' = [err |-> "get token"] /\ hpc' = "returned"
       ELSE /\ ~frame.active.Expired
            /\ hpc' = "Do"
            /\ UNCHANGED response
    /\ UNCHANGED << request, producer, zaiResp, frame, wire, delivered >>

\* c.getValidToken() on an expired token: refreshActiveToken, and the
\* refreshed token is used whatever its expiry
getValidTokenRefresh ==
    /\ hpc = "getValidToken"
    /\ frame.active # Nil
    /\ frame.active.Expired
    /\ \E ok \in BOOLEAN, expired \in BOOLEAN :
          IF Refreshed(frame.active, ok, expired) = Nil
          THEN response' = [err |-> "get token"] /\ hpc' = "returned" /\ frame' = frame
          ELSE /\ frame' = [frame EXCEPT !.active = Refreshed(frame.active, ok, expired)]
               /\ hpc' = "Do"
               /\ UNCHANGED response
    /\ UNCHANGED << request, producer, zaiResp, wire, delivered >>

\* resp, err := client.Do(httpReq) and the tests of resp.StatusCode
Do ==
    /\ hpc = "Do"
    /\ \E answer \in Answers :
          /\ frame' = [frame EXCEPT !.attempts = UpTo(@)]
          /\ CASE answer = "error" -> response' = [err |-> "send request"] /\ hpc' = "returned"
               [] answer = "200"   -> response' = [StatusCode |-> "200"] /\ hpc' = "returned"
               [] answer = "other" -> response' = [err |-> "qwen error"] /\ hpc' = "returned"
               [] OTHER            -> hpc' = "refreshActiveToken" /\ UNCHANGED response
    /\ UNCHANGED << request, producer, zaiResp, wire, delivered >>

\* the token was rejected: c.refreshActiveToken(), then
\* return c.SendChatRequest(req, chatID)
RefreshAndRetry ==
    /\ hpc = "refreshActiveToken"
    /\ \E ok \in BOOLEAN, expired \in BOOLEAN :
          IF Refreshed(frame.active, ok, expired) = Nil
          THEN response' = [err |-> "refresh token"] /\ hpc' = "returned" /\ frame' = frame
          ELSE /\ frame' = [frame EXCEPT !.active = Refreshed(frame.active, ok, expired),
                                         !.depth = UpTo(@)]
               /\ hpc' = "getValidToken"
               /\ UNCHANGED response
    /\ UNCHANGED << request, producer, zaiResp, wire, delivered >>

QwenNext ==
    \/ getValidToken
    \/ getValidTokenRefresh
    \/ Do
    \/ RefreshAndRetry

\* the call runs on while it has a statement to execute
QwenSpec == QwenInit /\ [][QwenNext]_vars /\ WF_vars(QwenNext)

(***************************************************************************)
(* C38: every call of the qwen client's SendChatRequest returns, with a    *)
(* response or an error, after a bounded number of upstream requests.      *)
(***************************************************************************)
C38_CallReturns == <>(hpc = "returned")

(***************************************************************************)
(* ChatCompletions on the provider list in the opposite order              *)
(***************************************************************************)
Reverse(s) == [i \in 1..Len(s) |-> s[Len(s) + 1 - i]]

(***************************************************************************)
(* C39: no model is supported by both the zlm and the qwen client, so the  *)
(* provider ChatCompletions chose is the one it would have chosen from the *)
(* list in the opposite order; a model whose name starts with coder- or    *)
(* vision- and is neither coder-model nor vision-model is given to no      *)
(* provider.                                                               *)
(***************************************************************************)
C39_DispatchOrderFree ==
    Dispatching /\ hpc \notin {"decode", "validate", "select"} /\ Validate(frame.req) =>
        /\ ~(/\ SupportsModel([Name |-> "zlm"], frame.req.Model)
             /\ SupportsModel([Name |-> "qwen"], frame.req.Model))
        /\ frame.p = SelectProvider(Reverse(frame.providers), frame.req.Model)
        /\ frame.req.Model.prefix \in {"coder-", "vision-"} /\ frame.req.Model.rest # "model"
              => frame.p = Nil /\ frame.calls = << >>

\* vision-model was sent to the qwen client, which stands behind the zlm
\* client in the list
C39_Witness ==
    /\ hpc = "sent"
    /\ frame.providers = << [Name |-> "zlm"], [Name |-> "qwen"] >>
    /\ frame.req.Model = [prefix |-> "vision-", rest |-> "model"]
    /\ frame.calls = << [Name |-> "qwen"] >>

(***************************************************************************)
(* The token store under concurrent requests.  The Store holds no lock:    *)
(* each badger transaction (the View of List and GetByID, the Update of    *)
(* save and Remove) is atomic, and the transactions of concurrent calls    *)
(* interleave.  frame.db maps a token ID to Nil or to the stored token     *)
(* [ID, Provider, IsActive]; frame.req[i] is the call request i makes:     *)
(* op, its arguments (id, provider), the statement it stands at (pc), the  *)
(* token it holds (t), the tokens it listed (tokens) and its position in   *)
(* the loop over them (k).  An Update is the one refreshActiveToken makes: *)
(* the active token is read, refreshed and saved back.                     *)
(***************************************************************************)
\* the requests in flight
MaxRequests == 2

StoreProviders == {"glm", "qwen"}

\* the IDs of the stored tokens, in key order: 1 and 2 may exist at the
\* start, 2 + i is the one the AddWithProvider of request i generates
TokenIds == 1..(2 + MaxRequests)

StoredToken(id, provider, active) == [ID |-> id, Provider |-> provider, IsActive |-> active]

\* s.List() filtered by provider, from the k-th key on
RECURSIVE ListFrom(_, _, _)
ListFrom(db, provider, k) ==
    IF k \notin TokenIds THEN << >>
    ELSE (IF db[k] # Nil /\ db[k].Provider = provider THEN << db[k] >> ELSE << >>)
         \o ListFrom(db, provider, k + 1)

ListByProvider(db, provider) == ListFrom(db, provider, 1)

\* the first active token of the list, Nil when there is none
RECURSIVE FirstActive(_)
FirstActive(tokens) ==
    IF tokens = << >> THEN Nil
    ELSE IF Head(tokens).IsActive THEN Head(tokens) ELSE FirstActive(Tail(tokens))

GetActiveByProvider(db, provider) == FirstActive(ListByProvider(db, provider))

\* the active tokens of a provider
ActiveOf(db, provider) ==
    {k \in TokenIds : db[k] # Nil /\ db[k].Provider = provider /\ db[k].IsActive}

\* the calls a request may make
StoreCalls(i) ==
    {[op |-> "AddWithProvider", id |-> 2 + i, provider |-> p, pc |-> "list",
      t |-> Nil, tokens |-> << >>, k |-> 1] : p \in StoreProviders}
    \cup {[op |-> o, id |-> id, provider |-> "", pc |-> IF o = "Remove" THEN "delete" ELSE "get",
           t |-> Nil, tokens |-> << >>, k |-> 1] : o \in {"SetActive", "Remove"}, id \in {1, 2}}
    \cup {[op |-> "Update", id |-> 0, provider |-> p, pc |-> "active",
           t |-> Nil, tokens |-> << >>, k |-> 1] : p \in StoreProviders}

StoreInit ==
    /\ thinkMode = "details"
    /\ stream = FALSE
    /\ includeUsage = FALSE
    /\ body = << >>
    /\ scanPos = 1
    /\ ppc = "none"
    /\ ch = Nil
    /\ hpc = "store"
    /\ zaiResp = Nil
    /\ \E a \in {Nil} \cup {StoredToken(1, p, e) : p \in StoreProviders, e \in BOOLEAN},
          b \in {Nil} \cup {StoredToken(2, p, e) : p \in StoreProviders, e \in BOOLEAN},
          calls \in [1..MaxRequests -> UNION {StoreCalls(i) : i \in 1..MaxRequests}] :
          /\ \A i \in 1..MaxRequests : calls[i] \in StoreCalls(i)
          /\ frame = [db |-> [id \in TokenIds |->
                                 IF id = 1 THEN a ELSE IF id = 2 THEN b ELSE Nil],
                      req |-> calls]
          /\ \A p \in StoreProviders : Cardinality(ActiveOf(frame.db, p)) <= 1
    /\ wire = << >>
    /\ response = Nil
    /\ delivered = << >>

\* s.save(t): the token is written under its key
save(db, t) == [db EXCEPT ![t.ID] = t]

\* request i moves on with the call state c and the store db
StoreStep(i, c, db) ==
    /\ frame' = [db |-> db, req |-> [frame.req EXCEPT ![i] = c]]
    /\ UNCHANGED << request, producer, hpc, zaiResp, output, delivered >>

\* AddWithProvider: tokens, _ := s.ListByProvider(provider); the new token
\* is active when the list is empty
AddList(i) ==
    /\ frame.req[i].op = "AddWithProvider"
    /\ frame.req[i].pc = "list"
    /\ StoreStep(i, [frame.req[i] EXCEPT
                        !.t = StoredToken(frame.req[i].id, frame.req[i].provider,
                                  ListByProvider(frame.db, frame.req[i].provider) = << >>),
                        !.pc = "save"],
                 frame.db)

\* AddWithProvider: s.save(t)
AddSave(i) ==
    /\ frame.req[i].op = "AddWithProvider"
    /\ frame.req[i].pc = "save"
    /\ StoreStep(i, [frame.req[i] EXCEPT !.pc = "done"], save(frame.db, frame.req[i].t))

\* SetActive: t, err := s.GetByID(id), "token not found" when there is none
SetActiveGet(i) ==
    /\ frame.req[i].op = "SetActive"
    /\ frame.req[i].pc = "get"
    /\ StoreStep(i, [frame.req[i] EXCEPT
                        !.t = frame.db[frame.req[i].id],
                        !.pc = IF frame.db[frame.req[i].id] = Nil THEN "done" ELSE "list"],
                 frame.db)

\* SetActive: tokens, err := s.ListByProvider(t.Provider)
SetActiveList(i) ==
    /\ frame.req[i].op = "SetActive"
    /\ frame.req[i].pc = "list"
    /\ StoreStep(i, [frame.req[i] EXCEPT
                        !.tokens = ListByProvider(frame.db, frame.req[i].t.Provider),
                        !.k = 1,
                        !.pc = "loop"],
                 frame.db)

\* SetActive: one turn of the loop, tok.IsActive = (tok.ID == id); s.save(tok)
SetActiveSave(i) ==
    /\ frame.req[i].op = "SetActive"
    /\ frame.req[i].pc = "loop"
    /\ IF frame.req[i].k > Len(frame.req[i].tokens)
       THEN StoreStep(i, [frame.req[i] EXCEPT !.pc = "done"], frame.db)
       ELSE StoreStep(i, [frame.req[i] EXCEPT !.k = @ + 1],
                      save(frame.db,
                           [frame.req[i].tokens[frame.req[i].k] EXCEPT
                               !.IsActive = (frame.req[i].tokens[frame.req[i].k].ID
                                             = frame.req[i].id)]))

\* Remove: txn.Delete of the token's key
Remove(i) ==
    /\ frame.req[i].op = "Remove"
    /\ frame.req[i].pc = "delete"
    /\ StoreStep(i, [frame.req[i] EXCEPT !.pc = "done"],
                 [frame.db EXCEPT ![frame.req[i].id] = Nil])

\* refreshActiveToken: active, err := c.store.GetActiveByProvider(provider)
UpdateGet(i) ==
    /\ frame.req[i].op = "Update"
    /\ frame.req[i].pc = "active"
    /\ StoreStep(i, [frame.req[i] EXCEPT
                        !.t = GetActiveByProvider(frame.db, frame.req[i].provider),
                        !.pc = IF GetActiveByProvider(frame.db, frame.req[i].provider) = Nil
                               THEN "done" ELSE "update"],
                 frame.db)

\* refreshActiveToken: c.store.Update(active), which is s.save(active)
Update(i) ==
    /\ frame.req[i].op = "Update"
    /\ frame.req[i].pc = "update"
    /\ StoreStep(i, [frame.req[i] EXCEPT !.pc = "done"], save(frame.db, frame.req[i].t))

StoreNext ==
    \E i \in 1..MaxRequests :
        \/ AddList(i)
        \/ AddSave(i)
        \/ SetActiveGet(i)
        \/ SetActiveList(i)
        \/ SetActiveSave(i)
        \/ Remove(i)
        \/ UpdateGet(i)
        \/ Update(i)

StoreSpec == StoreInit /\ [][StoreNext]_vars

(***************************************************************************)
(* C40: whenever the calls of the concurrent requests have all returned,   *)
(* each provider has at most one token whose IsActive is true.             *)
(***************************************************************************)
C40_OneActivePerProvider ==
    (\A i \in 1..MaxRequests : frame.req[i].pc = "done") =>
        \A p \in StoreProviders : Cardinality(ActiveOf(frame.db, p)) <= 1

====
